---- MODULE Spec2Model ----
(***************************************************************************)
(* A model of sqlp: the IN-clause expander (sqlpin.InQuery), the metadata  *)
(* resolver with its process-wide cache (sqlpdb.getFieldInfo), the column  *)
(* projector (sqlpdb.columns) and the row scanner (sqlpdb.doScan).         *)
(*                                                                         *)
(* Strings are sequences of one-character strings, so that counting,       *)
(* searching, replacing, case mapping and sorting are computed the way the *)
(* Go standard library computes them.                                      *)
(***************************************************************************)
EXTENDS Integers, Sequences, FiniteSets, TLC

VARIABLES
    query,       \* InQuery: the template passed in
    args,        \* InQuery: the argument list passed in (its values at call time)
    callerArgs,  \* InQuery: the caller's backing array as the caller sees it
    newQuery,    \* InQuery: returned template
    newArgs,     \* InQuery: returned argument list
    err,         \* InQuery: returned error ("nil" when none, "panic" when aborted)
    pc,          \* "ready" before the call, "done" after it
    prog,            \* the fields of the record type T of the calling program
    nameMapper,      \* the global NameMapper: "ToLower" or "ToSnakeCase"
    fieldInfoCache,  \* the global cache: key -> fieldInfo
    colsOut,         \* columns: the string returned by the last call
    colsPrev,        \* columns: the string returned by the call before it
    colsInfo,        \* columns: the fieldInfo the last call resolved
    colsCalls,       \* columns: the number of calls so far
    colsCold,        \* columns: the first call found the cache empty
    colsMapper,      \* columns: the NameMapper at the first call
    scanPc,          \* doScan: "ready" before the call, "scanned" after it
    scanType,        \* doScan: the type T of dest
    scanCols,        \* doScan: the columns the cursor reports
    scanColumnsFail, \* doScan: whether the cursor's Columns fails
    scanFailAt,      \* doScan: the column at which the cursor's Scan fails, or 0
    scanMapper,      \* doScan: the NameMapper at the call
    scanInfo,        \* doScan: the fieldInfo resolved for dest
    scanTargets,     \* doScan: the targets handed to the cursor's Scan
    scanDest,        \* doScan: the value of each field of dest after the call
    scanErr,         \* doScan: the returned error
    scanCalled,      \* doScan: the number of calls of the cursor's Scan
    snakeSrc,        \* ToSnakeCase: the string passed in
    snakeOut,        \* ToSnakeCase: the string returned
    snakePc,         \* ToSnakeCase: "ready" before the call, "done" after it
    opName,          \* InsertDb, UpdateDb, DeleteDb: the function called last
    opDb,            \* InsertDb, UpdateDb, DeleteDb: the handle passed in, "nil" or "db"
    opType,          \* InsertDb, UpdateDb, DeleteDb: the type T of the call
    opExecFails,     \* InsertDb, UpdateDb, DeleteDb: whether db.Exec fails
    opErr,           \* InsertDb, UpdateDb, DeleteDb: the returned error
    opSent,          \* InsertDb, UpdateDb, DeleteDb: the statements the call sent to db.Exec
    opCalls,         \* InsertDb, UpdateDb, DeleteDb: the number of calls so far
    lockReaders,     \* fieldInfoCacheLock: the goroutines that hold it shared
    lockWriter,      \* fieldInfoCacheLock: the goroutine that holds it exclusively
    stack,           \* of each goroutine: its calls of getFieldInfo in progress
    request,         \* of each goroutine: the type and flags it asked for
    result,          \* of each goroutine: the fieldInfo it was returned
    qPc,             \* Query functions: "ready" before the call, "done" after it
    qFn,             \* Query functions: the function called
    qDb,             \* Query functions: the handle passed in, "nil" or "db"
    qQuery,          \* Query functions: the template passed in
    qArgs,           \* Query functions: the arguments passed in
    qSvc,            \* Query functions: what the execution service does in the call
    qRet,            \* Query functions: what the call returned and did
    resPc,           \* getFieldInfo: "ready" before the call, "done" after it
    resMode,         \* getFieldInfo: the flags includePk and applyIgnore of the call
    resInfo          \* getFieldInfo: the fieldInfo returned

inVars == <<query, args, callerArgs, newQuery, newArgs, err, pc>>
metaVars == <<prog, nameMapper, fieldInfoCache>>
colVars == <<colsOut, colsPrev, colsInfo, colsCalls, colsCold, colsMapper>>
scanVars == <<scanPc, scanType, scanCols, scanColumnsFail, scanFailAt, scanMapper,
              scanInfo, scanTargets, scanDest, scanErr, scanCalled>>
snakeVars == <<snakeSrc, snakeOut, snakePc>>
opVars == <<opName, opDb, opType, opExecFails, opErr, opSent, opCalls>>
concVars == <<lockReaders, lockWriter, stack, request, result>>
queryVars == <<qPc, qFn, qDb, qQuery, qArgs, qSvc, qRet>>
resVars == <<resPc, resMode, resInfo>>
otherVars == <<snakeVars, opVars, concVars, queryVars, resVars>>
vars == <<inVars, metaVars, colVars, scanVars, otherVars>>

(***************************************************************************)
(* Bounds of the model.                                                    *)
(***************************************************************************)
MaxTokens == 3   \* a template is made of at most this many tokens
MaxArgs == 3     \* an argument list has at most this many arguments
MaxSeqLen == 2   \* a sequence argument has at most this many elements
MaxFields == 2   \* the record type T declares at most this many fields
MaxCalls == 2    \* columns is called at most this many times in a run
MaxCols == 2     \* the cursor reports at most this many columns
MaxNameLen == 3  \* a name passed to ToSnakeCase has at most this many characters
MaxRows == 2     \* a cursor holds at most this many rows

(***************************************************************************)
(* Strings.                                                                *)
(***************************************************************************)
HasPrefix(s, sub) ==
    Len(sub) <= Len(s) /\ SubSeq(s, 1, Len(sub)) = sub

\* strings.Count: the number of non-overlapping instances of sub in s.
RECURSIVE Count(_, _)
Count(s, sub) ==
    IF Len(s) < Len(sub) THEN 0
    ELSE IF HasPrefix(s, sub)
         THEN 1 + Count(SubSeq(s, Len(sub) + 1, Len(s)), sub)
         ELSE Count(Tail(s), sub)

\* strings.Index: the 0-based index of the first instance of sub in s, or -1.
RECURSIVE Index(_, _)
Index(s, sub) ==
    IF Len(s) < Len(sub) THEN -1
    ELSE IF HasPrefix(s, sub) THEN 0
    ELSE LET r == Index(Tail(s), sub) IN IF r < 0 THEN -1 ELSE r + 1

\* strings.Replace(s, old, new, 1): the first instance of old replaced by new.
ReplaceNone(s, old, new) == s

Replace(s, old, new) ==
    LET i == Index(s, old)
    IN  IF i < 0 THEN s
        ELSE SubSeq(s, 1, i) \o new \o SubSeq(s, i + Len(old) + 1, Len(s))

RECURSIVE Repeat(_, _)
Repeat(s, n) == IF n <= 0 THEN <<>> ELSE s \o Repeat(s, n - 1)

TrimPrefix(s, p) ==
    IF HasPrefix(s, p) THEN SubSeq(s, Len(p) + 1, Len(s)) ELSE s

(***************************************************************************)
(* sqlputil.                                                               *)
(***************************************************************************)
BuildPlaceholdersOneMore(amountOfValues) ==
    TrimPrefix(Repeat(<<",", " ", "?">>, amountOfValues + 1), <<",", " ">>)

BuildPlaceholders(amountOfValues) ==
    TrimPrefix(Repeat(<<",", " ", "?">>, amountOfValues), <<",", " ">>)

\* An argument is an opaque scalar or a slice of scalars.
Scalar(x) == [kind |-> "scalar", v |-> x, elems |-> <<>>]
Slice(xs) == [kind |-> "slice", v |-> 0, elems |-> xs]

\* reflect: Kind() is Slice or Array; Len() aborts on every other kind.
IsList(a) == a.kind = "slice"

\* ToAny: each element of the slice boxed as a value of its own.
ToAnyReversed(s) ==
    [i \in 1..Len(s.elems) |-> Scalar(s.elems[Len(s.elems) + 1 - i])]

ToAny(s) == [i \in 1..Len(s.elems) |-> Scalar(s.elems[i])]

(***************************************************************************)
(* sqlpin.                                                                 *)
(***************************************************************************)
InQueryReplace == <<"I", "N", " ", "(", "*", ")">>
FalsePredicate == <<"=", " ", "F", "A", "L", "S", "E">>
InList(n) == <<"I", "N", " ", "(">> \o BuildPlaceholders(n) \o <<")">>

\* Go's first[:index], and first[index+1:], for a 0-based index.
Before(s, index) == SubSeq(s, 1, index)
After(s, index) == SubSeq(s, index + 2, Len(s))

replaceWithFlattenDropTail(first, second, index) ==
    Before(first, index) \o second

replaceWithFlatten(first, second, index) ==
    Before(first, index) \o second \o After(first, index)

\* A returned triple, with what the call left in the caller's backing array.
Ret(q, a, e, caller) == [query |-> q, args |-> a, err |-> e, caller |-> caller]
ErrOnlyOne == "sqlp: only one in query is supported"
ErrNotEnough == "sqlp: not enough arguments for in query"
Fail(e, caller) == Ret(<<>>, <<>>, e, caller)

\* The number of placeholder-consuming elements of the template.
PlaceholderCount(q) == Count(q, <<"?">>) + Count(q, InQueryReplace)

\* The index in the argument list of the argument for the IN.
ArgIndexAll(q) == Count(q, <<"?">>)

ArgIndex(q) ==
    LET index == Index(q, InQueryReplace) + 1
    IN  Count(SubSeq(q, 1, index), <<"?">>)

\* The IN is the only argument.
InQueryOnlyNoFalse(q, a) ==
    IF Len(a) > 0 /\ IsList(a[1])
    THEN Ret(Replace(q, InQueryReplace, InList(Len(a[1].elems))), ToAny(a[1]), "nil", a)
    ELSE Ret(Replace(q, InQueryReplace, InList(Len(a))), a, "nil", a)

InQueryOnly(q, a) ==
    IF Len(a) = 0
    THEN Ret(Replace(q, InQueryReplace, FalsePredicate), <<>>, "nil", a)
    ELSE IF IsList(a[1])
         THEN IF Len(a[1].elems) = 0
              THEN Ret(Replace(q, InQueryReplace, FalsePredicate), <<>>, "nil", a)
              ELSE Ret(Replace(q, InQueryReplace, InList(Len(a[1].elems))),
                       ToAny(a[1]), "nil", a)
         ELSE Ret(Replace(q, InQueryReplace, InList(Len(a))), a, "nil", a)

\* append(args[:argIndex], args[argIndex+1:]...) writes into the backing array
\* of args: the tail moves one place left and the last place keeps its value.
SpliceOutKeep(a, argIndex) == a

SpliceOut(a, argIndex) == Before(a, argIndex) \o After(a, argIndex)

BackingAfterSplice(a, argIndex) == SpliceOut(a, argIndex) \o <<a[Len(a)]>>

\* The IN shares the template with other placeholders.
InQueryFlatten(q, a) ==
    LET argIndex == ArgIndex(q)
    IN  IF Len(a) <= argIndex
        THEN Fail(ErrNotEnough, a)
        ELSE IF ~IsList(a[argIndex + 1])
        THEN Fail("panic", a)
        ELSE LET argList == ToAny(a[argIndex + 1])
             IN  IF Len(argList) = 0
                 THEN Ret(Replace(q, InQueryReplace, FalsePredicate),
                          SpliceOut(a, argIndex), "nil",
                          BackingAfterSplice(a, argIndex))
                 ELSE Ret(Replace(q, InQueryReplace, InList(Len(argList))),
                          replaceWithFlatten(a, argList, argIndex), "nil", a)

TooManyMarkersNever(q) == FALSE

TooManyMarkers(q) == Count(q, InQueryReplace) > 1

InQueryResult(q, a) ==
    IF TooManyMarkers(q) THEN Fail(ErrOnlyOne, a)
    ELSE IF PlaceholderCount(q) = 1 THEN InQueryOnly(q, a)
    ELSE InQueryFlatten(q, a)

(***************************************************************************)
(* The inputs of InQuery.                                                  *)
(***************************************************************************)
Tokens == {<<"?">>, InQueryReplace, <<"x">>}

RECURSIVE Concat(_)
Concat(ts) == IF ts = <<>> THEN <<>> ELSE Head(ts) \o Concat(Tail(ts))

Templates ==
    {Concat(ts) : ts \in UNION {[1..n -> Tokens] : n \in 0..MaxTokens}}

\* InQuery reads an argument's kind and length and never its value, so each
\* argument carries values that name its place: 10*i for a scalar in place i,
\* 10*i+1, 10*i+2, ... for the elements of a slice in place i.  A shape is -1
\* for a scalar and the length for a slice.
ArgOfShape(i, shape) ==
    IF shape < 0 THEN Scalar(10 * i)
    ELSE Slice([j \in 1..shape |-> 10 * i + j])

Shapes == UNION {[1..n -> -1..MaxSeqLen] : n \in 0..MaxArgs}

ArgLists ==
    {[i \in 1..Len(shapes) |-> ArgOfShape(i, shapes[i])] : shapes \in Shapes}

(***************************************************************************)
(* Names.  Go compares and sorts strings byte by byte.                     *)
(***************************************************************************)
UpperLetters ==
    <<"A", "B", "C", "D", "E", "F", "G", "H", "I", "J", "K", "L", "M",
      "N", "O", "P", "Q", "R", "S", "T", "U", "V", "W", "X", "Y", "Z">>
LowerLetters ==
    <<"a", "b", "c", "d", "e", "f", "g", "h", "i", "j", "k", "l", "m",
      "n", "o", "p", "q", "r", "s", "t", "u", "v", "w", "x", "y", "z">>

UpperSet == {UpperLetters[i] : i \in 1..Len(UpperLetters)}
LowerSet == {LowerLetters[i] : i \in 1..Len(LowerLetters)}

\* The lower-case letter of each upper-case letter.
LowerOf ==
    [c \in UpperSet |->
        LowerLetters[CHOOSE i \in 1..Len(UpperLetters) : UpperLetters[i] = c]]

\* The byte of each letter: 'A' is 65 and 'a' is 97.
ByteOf ==
    [c \in UpperSet \cup LowerSet |->
        IF c \in UpperSet
        THEN 64 + (CHOOSE i \in 1..Len(UpperLetters) : UpperLetters[i] = c)
        ELSE 96 + (CHOOSE i \in 1..Len(LowerLetters) : LowerLetters[i] = c)]

IsUpper(c) == c \in UpperSet

\* The byte of a character; '_' is 95.
Code(c) == IF c \in DOMAIN ByteOf THEN ByteOf[c] ELSE 95

ToLowerChar(c) == IF IsUpper(c) THEN LowerOf[c] ELSE c

\* strings.ToLower
ToLower(s) == [i \in 1..Len(s) |-> ToLowerChar(s[i])]

\* ToSnakeCase: an underscore before an upper-case character that is not the
\* first and does not follow an upper-case character; then lower-cased.
RECURSIVE SnakeFrom(_, _, _)
SnakeFrom(src, i, prevUpper) ==
    IF i > Len(src) THEN <<>>
    ELSE LET thisUpper == IsUpper(src[i])
         IN  (IF i > 1 /\ thisUpper /\ ~prevUpper THEN <<"_">> ELSE <<>>)
             \o <<src[i]>> \o SnakeFrom(src, i + 1, thisUpper)

ToSnakeCaseNoLower(src) == SnakeFrom(src, 1, FALSE)

ToSnakeCase(src) == ToLower(SnakeFrom(src, 1, FALSE))

\* NameMapper(s), for the function the variable holds.
ApplyMapper(mapper, s) ==
    IF mapper = "ToSnakeCase" THEN ToSnakeCase(s) ELSE ToLower(s)

\* a < b as Go compares strings.
RECURSIVE LexLess(_, _)
LexLess(a, b) ==
    IF b = <<>> THEN FALSE
    ELSE IF a = <<>> THEN TRUE
    ELSE IF Code(a[1]) < Code(b[1]) THEN TRUE
    ELSE IF Code(a[1]) > Code(b[1]) THEN FALSE
    ELSE LexLess(Tail(a), Tail(b))

\* sort.Strings
RECURSIVE InsertSorted(_, _)
InsertSorted(x, sorted) ==
    IF sorted = <<>> THEN <<x>>
    ELSE IF LexLess(Head(sorted), x)
         THEN <<Head(sorted)>> \o InsertSorted(x, Tail(sorted))
         ELSE <<x>> \o sorted

RECURSIVE SortStrings(_)
SortStrings(names) ==
    IF names = <<>> THEN <<>>
    ELSE InsertSorted(Head(names), SortStrings(Tail(names)))

\* strings.Join
RECURSIVE Join(_, _)
Join(elems, sep) ==
    IF elems = <<>> THEN <<>>
    ELSE IF Len(elems) = 1 THEN elems[1]
    ELSE elems[1] \o sep \o Join(Tail(elems), sep)

(***************************************************************************)
(* Record types.  A field declaration is its name, whether it is exported, *)
(* its sql tag (empty when it has none), whether it carries the sql-auto   *)
(* and the sql-ign tag, whether it is embedded, and, for a field of struct *)
(* kind, the type of the struct.                                           *)
(***************************************************************************)
TagName == "sql"
Dash == <<"-">>

Field(name, exported, tag, pk, ign, anonymous, typ) ==
    [name |-> name, exported |-> exported, tag |-> tag, pk |-> pk, ign |-> ign,
     anonymous |-> anonymous, typ |-> typ]

Plain(name, tag) == Field(name, TRUE, tag, FALSE, FALSE, FALSE, "")
Embedded(name, tag, typ) == Field(name, TRUE, tag, FALSE, FALSE, TRUE, typ)

\* The declarations a record type of the calling program is made of.
DeclFa == Plain(<<"F", "a">>, <<"f", "a">>)                 \* Fa string `sql:"fa"`
DeclFb == Plain(<<"F", "b">>, Dash)                           \* Fb string `sql:"-"`
DeclFc == Plain(<<"F", "c">>, <<"f", "_", "C">>)            \* Fc string `sql:"f_C"`
DeclFdX == Plain(<<"F", "d", "X">>, <<>>)                     \* FdX string
DeclFe == Field(<<"f", "e">>, FALSE, <<>>, FALSE, FALSE, FALSE, "")   \* fe string
DeclId == Field(<<"I", "d">>, TRUE, <<>>, TRUE, FALSE, FALSE, "")     \* Id int `sql-auto:""`
DeclKey == Field(<<"K", "e", "y">>, TRUE, <<"k">>, TRUE, FALSE, FALSE, "")  \* Key int `sql:"k" sql-auto:""`
DeclTmp == Field(<<"T", "m", "p">>, TRUE, <<>>, FALSE, TRUE, FALSE, "")     \* Tmp string `sql-ign:""`
DeclEmb == Embedded(<<"E", "m", "b">>, <<>>, "Emb")           \* Emb
DeclNull == Embedded(<<"N", "u", "l", "l">>, <<"f", "f">>, "Null")    \* Null `sql:"ff"`
DeclDeep == Embedded(<<"D", "e", "e", "p">>, <<>>, "Deep")    \* Deep

AllDecls ==
    {DeclFa, DeclFb, DeclFc, DeclFdX, DeclFe, DeclId, DeclKey, DeclTmp,
     DeclEmb, DeclNull, DeclDeep}

\* type Emb struct { Fe string `sql:"fe"`; Fa string `sql:"fa"` }
EmbFields == <<Plain(<<"F", "e">>, <<"f", "e">>), DeclFa>>
\* type Null struct { String string; Valid bool }, with a Scan method
NullFields == <<Plain(<<"S", "t", "r", "i", "n", "g">>, <<>>),
                Plain(<<"V", "a", "l", "i", "d">>, <<>>)>>
\* type Deep struct { FgH string; Emb }
DeepFields == <<Plain(<<"F", "g", "H">>, <<>>), DeclEmb>>
\* a second type T of the program, declared in another scope
HFields == <<Plain(<<"H", "x">>, <<>>), DeclFa>>

\* reflect.Type: the fields of a type; T is the type whose fields are fs.
TypeFields(fs, typ) ==
    IF typ = "T" THEN fs
    ELSE IF typ = "H" THEN HFields
    ELSE IF typ = "Emb" THEN EmbFields
    ELSE IF typ = "Null" THEN NullFields
    ELSE DeepFields

\* typ.String(): the package name and the type name.
TypeString(typ) == IF typ = "H" THEN "p.T" ELSE "p." \o typ

\* reflect.PointerTo(f.Type).Implements(scannerType)
ImplementsScannerNever(typ) == FALSE

ImplementsScanner(typ) == typ = "Null"

\* The record types of the program: every sequence of distinct declarations.
RECURSIVE ProgramsOver(_, _)
ProgramsOver(decls, n) ==
    IF n = 0 THEN {<<>>}
    ELSE LET shorter == ProgramsOver(decls, n - 1)
         IN  shorter \cup
             {Append(fs, d) : fs \in {x \in shorter : Len(x) = n - 1},
                              d \in decls} 

Distinct(fs) == \A i, j \in 1..Len(fs) : i # j => fs[i].name # fs[j].name

Programs(decls) == {fs \in ProgramsOver(decls, MaxFields) : Len(fs) >= 1 /\ Distinct(fs)}

(***************************************************************************)
(* The metadata resolver and its cache.                                    *)
(***************************************************************************)
BoolString(b) == IF b THEN "true" ELSE "false"

\* fmt.Sprintf("%s%s%t%t", typ.String(), TagName, includePk, applyIgnore)
CacheKey(typ, includePk, applyIgnore) ==
    TypeString(typ) \o TagName \o BoolString(includePk) \o BoolString(applyIgnore)

NoInfo == <<>>

\* Skip unexported fields or fields marked with "-"
SkippedEveryIgn(f, includePk, applyIgnore) ==
    \/ ~f.exported
    \/ f.tag = Dash
    \/ ~includePk /\ f.pk
    \/ f.ign

SkippedEveryPk(f, includePk, applyIgnore) ==
    \/ ~f.exported
    \/ f.tag = Dash
    \/ f.pk
    \/ applyIgnore /\ f.ign

Skipped(f, includePk, applyIgnore) ==
    \/ ~f.exported
    \/ f.tag = Dash
    \/ ~includePk /\ f.pk
    \/ applyIgnore /\ f.ign

\* Use field name for untagged fields
ColumnNameTagVerbatim(mapper, f) ==
    IF f.tag = <<>> THEN ApplyMapper(mapper, f.name) ELSE f.tag

ColumnName(mapper, f) ==
    ApplyMapper(mapper, IF f.tag = <<>> THEN f.name ELSE f.tag)

\* getFieldInfo, with the cache it reads and the cache it leaves.  The loop
\* over the fields is FieldLoop, from the field in place i (index i - 1) on.
RECURSIVE getFieldInfo(_, _, _, _, _, _)
RECURSIVE FieldLoop(_, _, _, _, _, _, _, _)
RECURSIVE FieldLoopFirstWins(_, _, _, _, _, _, _, _)
FieldLoopFirstWins(cache, mapper, fs, typ, includePk, applyIgnore, i, finfo) ==
    LET fields == TypeFields(fs, typ)
    IN  IF i > Len(fields) THEN [finfo |-> finfo, cache |-> cache]
        ELSE LET f == fields[i]
             IN  IF Skipped(f, includePk, applyIgnore)
                 THEN FieldLoopFirstWins(cache, mapper, fs, typ, includePk, applyIgnore,
                                i + 1, finfo)
                 ELSE IF f.anonymous /\ f.typ # "" /\ ~ImplementsScanner(f.typ)
                 THEN LET sub == getFieldInfo(cache, mapper, fs, f.typ,
                                              includePk, applyIgnore)
                          spliced == [k \in DOMAIN sub.finfo |->
                                         <<i - 1>> \o sub.finfo[k]]
                      IN  FieldLoopFirstWins(sub.cache, mapper, fs, typ, includePk,
                                    applyIgnore, i + 1, finfo @@ spliced)
                 ELSE FieldLoopFirstWins(cache, mapper, fs, typ, includePk, applyIgnore,
                                i + 1, finfo @@ (ColumnName(mapper, f) :> <<i - 1>>))

FieldLoop(cache, mapper, fs, typ, includePk, applyIgnore, i, finfo) ==
    LET fields == TypeFields(fs, typ)
    IN  IF i > Len(fields) THEN [finfo |-> finfo, cache |-> cache]
        ELSE LET f == fields[i]
             IN  IF Skipped(f, includePk, applyIgnore)
                 THEN FieldLoop(cache, mapper, fs, typ, includePk, applyIgnore,
                                i + 1, finfo)
                 ELSE IF f.anonymous /\ f.typ # "" /\ ~ImplementsScanner(f.typ)
                 THEN LET sub == getFieldInfo(cache, mapper, fs, f.typ,
                                              includePk, applyIgnore)
                          spliced == [k \in DOMAIN sub.finfo |->
                                         <<i - 1>> \o sub.finfo[k]]
                      IN  FieldLoop(sub.cache, mapper, fs, typ, includePk,
                                    applyIgnore, i + 1, spliced @@ finfo)
                 ELSE FieldLoop(cache, mapper, fs, typ, includePk, applyIgnore,
                                i + 1, (ColumnName(mapper, f) :> <<i - 1>>) @@ finfo)

getFieldInfoRecomputed(cache, mapper, fs, typ, includePk, applyIgnore) ==
    LET key == CacheKey(typ, includePk, applyIgnore)
        r == FieldLoop(cache, mapper, fs, typ, includePk, applyIgnore, 1, NoInfo)
    IN  [finfo |-> r.finfo, cache |-> (key :> r.finfo) @@ r.cache]

getFieldInfo(cache, mapper, fs, typ, includePk, applyIgnore) ==
    LET key == CacheKey(typ, includePk, applyIgnore)
    IN  IF key \in DOMAIN cache
        THEN [finfo |-> cache[key], cache |-> cache]
        ELSE LET r == FieldLoop(cache, mapper, fs, typ, includePk, applyIgnore,
                                1, NoInfo)
             IN  [finfo |-> r.finfo, cache |-> (key :> r.finfo) @@ r.cache]

(***************************************************************************)
(* The column projector.                                                   *)
(***************************************************************************)
\* The orders in which a range over a map may visit its keys.
RECURSIVE Orders(_)
Orders(S) ==
    IF S = {} THEN {<<>>}
    ELSE UNION {{<<x>> \o rest : rest \in Orders(S \ {x})} : x \in S}

\* getColumns, for the order in which the range over the map visits the names.
getColumnsUnsorted(names) == names

getColumns(names) == SortStrings(names)

\* columns
columns(names) == Join(getColumns(names), <<",", " ">>)

MetaIdle ==
    /\ prog = <<>>
    /\ nameMapper = "ToLower"
    /\ fieldInfoCache = NoInfo

ColsIdle ==
    /\ colsOut = <<>>
    /\ colsPrev = <<>>
    /\ colsInfo = NoInfo
    /\ colsCalls = 0
    /\ colsCold = FALSE
    /\ colsMapper = "ToLower"

InQueryIdle ==
    /\ query = <<>>
    /\ args = <<>>
    /\ callerArgs = <<>>
    /\ newQuery = <<>>
    /\ newArgs = <<>>
    /\ err = "nil"
    /\ pc = "idle"

ScanIdle ==
    /\ scanPc = "idle"
    /\ scanType = "T"
    /\ scanCols = <<>>
    /\ scanColumnsFail = FALSE
    /\ scanFailAt = 0
    /\ scanMapper = "ToLower"
    /\ scanInfo = NoInfo
    /\ scanTargets = <<>>
    /\ scanDest = <<>>
    /\ scanErr = "nil"
    /\ scanCalled = 0

\* The goroutines of the program that resolve metadata.
Procs == {"g1", "g2"}

\* The parts of the program that a run does not exercise, all but those of
\* live: ToSnakeCase not called, UpdateDb and DeleteDb not called yet, no
\* goroutine in getFieldInfo, no Query function called, nothing resolved.
OtherIdle(live) ==
    /\ \/ "snake" \in live
       \/ /\ snakeSrc = <<>>
          /\ snakeOut = <<>>
          /\ snakePc = "idle"
    /\ /\ opName = ""
       /\ opDb = "db"
       /\ opType = "T"
       /\ opExecFails = FALSE
       /\ opErr = "nil"
       /\ opSent = <<>>
       /\ opCalls = 0
    /\ /\ lockReaders = {}
       /\ lockWriter = "none"
       /\ stack = [g \in Procs |-> <<>>]
       /\ request = [g \in Procs |-> <<>>]
       /\ result = [g \in Procs |-> NoInfo]
    /\ \/ "query" \in live
       \/ /\ qPc = "idle"
          /\ qFn = ""
          /\ qDb = "db"
          /\ qQuery = <<>>
          /\ qArgs = <<>>
          /\ qSvc = <<>>
          /\ qRet = <<>>
    /\ \/ "resolve" \in live
       \/ /\ resPc = "idle"
          /\ resMode = <<>>
          /\ resInfo = NoInfo

\* The program declares its record type T; init() makes the cache.
InitCols ==
    /\ prog \in Programs(AllDecls)
    /\ nameMapper = "ToLower"
    /\ fieldInfoCache = NoInfo
    /\ ColsIdle
    /\ InQueryIdle
    /\ ScanIdle
    /\ OtherIdle({})

\* columns[T]()
Columns ==
    /\ colsCalls < MaxCalls
    /\ LET r == getFieldInfo(fieldInfoCache, nameMapper, prog, "T", TRUE, FALSE)
       IN  /\ \E names \in Orders(DOMAIN r.finfo) : colsOut' = columns(names)
           /\ colsInfo' = r.finfo
           /\ fieldInfoCache' = r.cache
    /\ colsPrev' = colsOut
    /\ colsCalls' = colsCalls + 1
    /\ colsCold' = IF colsCalls = 0 THEN fieldInfoCache = NoInfo ELSE colsCold
    /\ colsMapper' = IF colsCalls = 0 THEN nameMapper ELSE colsMapper
    /\ UNCHANGED <<prog, nameMapper, inVars, scanVars, otherVars>>

\* columns[H](), for the other type the program calls T
ColumnsOther ==
    /\ CacheKey("H", TRUE, FALSE) \notin DOMAIN fieldInfoCache
    /\ fieldInfoCache' =
          getFieldInfo(fieldInfoCache, nameMapper, prog, "H", TRUE, FALSE).cache
    /\ UNCHANGED <<prog, nameMapper, inVars, colVars, scanVars, otherVars>>

\* columns[E]() for a record type E that T may embed
ColumnsEmbedded ==
    \E typ \in {"Emb", "Deep"} :
        /\ CacheKey(typ, TRUE, FALSE) \notin DOMAIN fieldInfoCache
        /\ fieldInfoCache' =
              getFieldInfo(fieldInfoCache, nameMapper, prog, typ, TRUE, FALSE).cache
        /\ UNCHANGED <<prog, nameMapper, inVars, colVars, scanVars, otherVars>>

\* NameMapper = ToSnakeCase, or NameMapper = strings.ToLower
SetNameMapper ==
    /\ \E m \in {"ToLower", "ToSnakeCase"} : m # nameMapper /\ nameMapper' = m
    /\ UNCHANGED <<prog, fieldInfoCache, inVars, colVars, scanVars, otherVars>>

NextCols == Columns \/ ColumnsOther \/ ColumnsEmbedded \/ SetNameMapper

SpecCols == InitCols /\ [][NextCols]_vars

(***************************************************************************)
(* A call of getFieldInfo for T, with each combination of its flags.       *)
(***************************************************************************)
InitResolve ==
    /\ prog \in Programs(AllDecls)
    /\ nameMapper \in {"ToLower", "ToSnakeCase"}
    /\ fieldInfoCache = NoInfo
    /\ resPc = "ready"
    /\ resMode = <<>>
    /\ resInfo = NoInfo
    /\ ColsIdle
    /\ InQueryIdle
    /\ ScanIdle
    /\ OtherIdle({"resolve"})

Resolve ==
    /\ resPc = "ready"
    /\ \E includePk, applyIgnore \in BOOLEAN :
          LET r == getFieldInfo(fieldInfoCache, nameMapper, prog, "T",
                                includePk, applyIgnore)
          IN  /\ resInfo' = r.finfo
              /\ fieldInfoCache' = r.cache
              /\ resMode' = <<includePk, applyIgnore>>
    /\ resPc' = "done"
    /\ UNCHANGED <<prog, nameMapper, inVars, colVars, scanVars, snakeVars, opVars,
                   concVars, queryVars>>

NextResolve == Resolve

SpecResolve == InitResolve /\ [][NextResolve]_vars

(***************************************************************************)
(* The row scanner.  A value of a record type holds one value for each of  *)
(* its fields of basic kind, reached by a path of field indices; the zero  *)
(* value is 0, and the cursor holds the value j for its j-th column.       *)
(***************************************************************************)
IsStruct(typ) == typ # "Int"

RECURSIVE Slots(_, _)
Slots(fs, typ) ==
    LET fields == TypeFields(fs, typ)
    IN  UNION {IF fields[i].typ # ""
               THEN {<<i - 1>> \o p : p \in Slots(fs, fields[i].typ)}
               ELSE {<<i - 1>>} : i \in 1..Len(fields)}

ZeroValue(fs, typ) ==
    IF IsStruct(typ) THEN [p \in Slots(fs, typ) |-> 0] ELSE <<>>

IsPrefix(a, b) == Len(a) <= Len(b) /\ \A i \in 1..Len(a) : a[i] = b[i]

\* reflect.Value.FieldByIndex aborts on an index out of range and on a field
\* of a value that is no struct; with no index it is the value itself.
RECURSIVE ValidPath(_, _, _)
ValidPath(fs, typ, path) ==
    LET fields == TypeFields(fs, typ)
    IN  \/ path = <<>>
        \/ /\ path[1] + 1 \in 1..Len(fields)
           /\ \/ Len(path) = 1
              \/ /\ fields[path[1] + 1].typ # ""
                 /\ ValidPath(fs, fields[path[1] + 1].typ, Tail(path))

\* &sql.RawBytes{}
Discard == <<-1>>

\* The target for one reported column.
TargetWholeStruct(mapper, finfo, cName) ==
    IF ApplyMapper(mapper, cName) \in DOMAIN finfo
    THEN finfo[ApplyMapper(mapper, cName)]
    ELSE <<>>

Target(mapper, finfo, cName) ==
    IF ApplyMapper(mapper, cName) \in DOMAIN finfo
    THEN finfo[ApplyMapper(mapper, cName)]
    ELSE Discard

\* The cursor's Scan: the value of column j is stored through target j, column
\* by column; it fails at column failAt (0: it does not fail) with the
\* columns before it stored.
RowsScan(dest, targets, failAt) ==
    LET stored == {j \in 1..Len(targets) : failAt = 0 \/ j < failAt}
        into(p) == {j \in stored : targets[j] # Discard /\ IsPrefix(targets[j], p)}
        last(S) == CHOOSE j \in S : \A k \in S : k <= j
    IN  [p \in DOMAIN dest |-> IF into(p) = {} THEN dest[p] ELSE last(into(p))]

ErrDest == "dest must be pointer to struct"
ErrColumns == "rows.Columns failed"
ErrScan == "rows.Scan failed"

\* What doScan returns and leaves: the error, dest, the targets it handed to
\* the cursor's Scan and the number of calls of Scan, the fieldInfo, the cache.
ScanRet(e, dest, targets, called, finfo, cache) ==
    [err |-> e, dest |-> dest, targets |-> targets, called |-> called,
     info |-> finfo, cache |-> cache]

\* The loop over the reported columns: one target appended for each.
RECURSIVE ptrsToScanIntoMappedOnly(_, _, _)
ptrsToScanIntoMappedOnly(mapper, finfo, cols) ==
    IF cols = <<>> THEN <<>>
    ELSE (IF Target(mapper, finfo, Head(cols)) = Discard THEN <<>>
          ELSE <<Target(mapper, finfo, Head(cols))>>)
         \o ptrsToScanIntoMappedOnly(mapper, finfo, Tail(cols))

ptrsToScanInto(mapper, finfo, cols) ==
    [j \in 1..Len(cols) |-> Target(mapper, finfo, cols[j])]

\* doScan, with dest at its zero value
doScan(cache, mapper, fs, typ, cols, columnsFail, failAt) ==
    IF ~IsStruct(typ)
    THEN ScanRet(ErrDest, ZeroValue(fs, typ), <<>>, 0, NoInfo, cache)
    ELSE LET r == getFieldInfo(cache, mapper, fs, typ, TRUE, FALSE)
             dest == ZeroValue(fs, typ)
             targets == ptrsToScanInto(mapper, r.finfo, cols)
         IN  IF columnsFail
             THEN ScanRet(ErrColumns, dest, <<>>, 0, r.finfo, r.cache)
             ELSE IF \E j \in 1..Len(targets) :
                        targets[j] # Discard /\ ~ValidPath(fs, typ, targets[j])
             THEN ScanRet("panic", dest, <<>>, 0, r.finfo, r.cache)
             ELSE ScanRet(IF failAt = 0 THEN "nil" ELSE ErrScan,
                          RowsScan(dest, targets, failAt), targets, 1,
                          r.finfo, r.cache)

\* The record types whose values are scanned, and the columns of the cursor.
ScanDecls == {DeclFa, DeclFb, DeclFdX, DeclEmb, DeclNull}

ScanColNames == {<<"f", "a">>, <<"F", "b">>, <<"f", "d", "x">>}

ColumnLists == UNION {[1..n -> ScanColNames] : n \in 0..MaxCols}

InitScan ==
    /\ prog \in Programs(ScanDecls)
    /\ nameMapper = "ToLower"
    /\ fieldInfoCache = NoInfo
    /\ ColsIdle
    /\ InQueryIdle
    /\ scanPc = "ready"
    /\ scanType = "T"
    /\ scanCols = <<>>
    /\ scanColumnsFail = FALSE
    /\ scanFailAt = 0
    /\ scanMapper = "ToLower"
    /\ scanInfo = NoInfo
    /\ scanTargets = <<>>
    /\ scanDest = <<>>
    /\ scanErr = "nil"
    /\ scanCalled = 0
    /\ OtherIdle({})

\* An earlier query of the program has resolved T, or the other type called T.
Resolved ==
    /\ scanPc = "ready"
    /\ \E typ \in {"T", "H"} :
          /\ CacheKey(typ, TRUE, FALSE) \notin DOMAIN fieldInfoCache
          /\ fieldInfoCache' =
                getFieldInfo(fieldInfoCache, nameMapper, prog, typ, TRUE, FALSE).cache
    /\ UNCHANGED <<prog, nameMapper, inVars, colVars, scanVars, otherVars>>

\* NameMapper is assigned before the row is scanned.
MapperAssigned ==
    /\ scanPc = "ready"
    /\ SetNameMapper

\* doScan(&dest, rows), for a row of a cursor
DoScan ==
    /\ scanPc = "ready"
    /\ \E typ \in {"T", "Int"}, cols \in ColumnLists,
          columnsFail \in BOOLEAN, failAt \in 0..MaxCols :
          /\ failAt <= Len(cols)
          /\ columnsFail => failAt = 0
          /\ ~IsStruct(typ) => cols = <<>> /\ ~columnsFail
          /\ LET r == doScan(fieldInfoCache, nameMapper, prog, typ, cols,
                             columnsFail, failAt)
             IN  /\ scanErr' = r.err
                 /\ scanDest' = r.dest
                 /\ scanTargets' = r.targets
                 /\ scanInfo' = r.info
                 /\ scanCalled' = r.called
                 /\ fieldInfoCache' = r.cache
          /\ scanType' = typ
          /\ scanCols' = cols
          /\ scanColumnsFail' = columnsFail
          /\ scanFailAt' = failAt
    /\ scanMapper' = nameMapper
    /\ scanPc' = "scanned"
    /\ UNCHANGED <<prog, nameMapper, inVars, colVars, otherVars>>

NextScan == Resolved \/ MapperAssigned \/ DoScan

SpecScan == InitScan /\ [][NextScan]_vars

(***************************************************************************)
(* The call of InQuery.                                                    *)
(***************************************************************************)
InitIn ==
    /\ query \in Templates
    /\ args \in ArgLists
    /\ callerArgs = args
    /\ newQuery = <<>>
    /\ newArgs = <<>>
    /\ err = "nil"
    /\ pc = "ready"
    /\ MetaIdle
    /\ ColsIdle
    /\ ScanIdle
    /\ OtherIdle({})

InQuery ==
    /\ pc = "ready"
    /\ LET r == InQueryResult(query, args)
       IN  /\ newQuery' = r.query
           /\ newArgs' = r.args
           /\ err' = r.err
           /\ callerArgs' = r.caller
    /\ pc' = "done"
    /\ UNCHANGED <<query, args, metaVars, colVars, scanVars, otherVars>>

NextIn == InQuery

SpecIn == InitIn /\ [][NextIn]_vars

(***************************************************************************)
(* The call of ToSnakeCase.                                                *)
(***************************************************************************)
\* The names passed in: every string of at most MaxNameLen characters over
\* two upper-case letters, a lower-case letter and the underscore, and the
\* names of TestToSnakeCase.
NameChars == {"F", "N", "a", "_"}

Names ==
    UNION {[1..n -> NameChars] : n \in 0..MaxNameLen}
    \cup {<<"F", "i", "r", "s", "t", "N", "a", "m", "e">>,
          <<"F", "i", "r", "s", "t">>,
          <<"f", "i", "r", "s", "t", "N", "a", "m", "e">>}

InitSnake ==
    /\ snakeSrc \in Names
    /\ snakeOut = <<>>
    /\ snakePc = "ready"
    /\ InQueryIdle
    /\ MetaIdle
    /\ ColsIdle
    /\ ScanIdle
    /\ OtherIdle({"snake"})

CallToSnakeCase ==
    /\ snakePc = "ready"
    /\ snakeOut' = ToSnakeCase(snakeSrc)
    /\ snakePc' = "done"
    /\ UNCHANGED <<snakeSrc, inVars, metaVars, colVars, scanVars, opVars, concVars,
                   queryVars, resVars>>

NextSnake == CallToSnakeCase

SpecSnake == InitSnake /\ [][NextSnake]_vars

(***************************************************************************)
(* UpdateDb and DeleteDb.  The value of the field at a path is the path,   *)
(* and a statement sent to db.Exec is its text and its arguments.          *)
(***************************************************************************)
AutoGenTagName == "sql-auto"
ErrNotSet == "sqlp: database not set"
ErrNotStruct == "dest must a struct"
\* fmt.Errorf("sqlp: error updating ...") and ("sqlp: error deleting from ...")
ErrExec(what) == "sqlp: error " \o what

\* errors.Join(err, "sqlp: error getting primary key for deletion") for the
\* error of getPkFieldInfo over n fields tagged sql-auto
ErrPk(n) ==
    "sqlp: expected exactly one primary key; got " \o ToString(n)
    \o "\nsqlp: error getting primary key for deletion"

\* getPkFieldInfo: the outcomes it may return; the range over finfo returns
\* at its first entry, whichever the map yields first.
getPkFieldInfoTagged(cache, fs, typ) ==
    LET fields == TypeFields(fs, typ)
        found == {i \in 1..Len(fields) : fields[i].pk /\ fields[i].tag # <<>>}
    IN  IF Cardinality(found) # 1
        THEN {[col |-> <<>>, idx |-> <<>>, n |-> Cardinality(found), ok |-> FALSE]}
        ELSE {[col |-> fields[i].name, idx |-> <<i - 1>>, n |-> 1, ok |-> TRUE] :
                 i \in found}

getPkFieldInfo(cache, fs, typ) ==
    LET key == TypeString(typ) \o AutoGenTagName
        fields == TypeFields(fs, typ)
        found == {i \in 1..Len(fields) : fields[i].pk}
    IN  IF key \in DOMAIN cache
        THEN IF DOMAIN cache[key] = {}
             THEN {[col |-> <<>>, idx |-> <<>>, n |-> 0, ok |-> TRUE]}
             ELSE {[col |-> k, idx |-> cache[key][k], n |-> 1, ok |-> TRUE] :
                      k \in DOMAIN cache[key]}
        ELSE IF Cardinality(found) # 1
        THEN {[col |-> <<>>, idx |-> <<>>, n |-> Cardinality(found), ok |-> FALSE]}
        ELSE {[col |-> fields[i].name, idx |-> <<i - 1>>, n |-> 1, ok |-> TRUE] :
                 i \in found}

\* prepareColumns with pkLast set, for a src of struct kind: the outcomes it
\* may return, one for each order in which the range over fInfo visits it.
prepareColumns(cache, mapper, fs, typ, includePk) ==
    LET r == getFieldInfo(cache, mapper, fs, typ, includePk, TRUE)
    IN  {[colNames |-> names,
          values |-> [j \in 1..Len(names) |-> r.finfo[names[j]]] \o <<pk.idx>>,
          pkCol |-> pk.col,
          err |-> IF \E k \in DOMAIN r.finfo : ~ValidPath(fs, typ, r.finfo[k])
                  THEN "panic"
                  ELSE IF pk.ok THEN "nil" ELSE ErrPk(pk.n),
          cache |-> r.cache] :
            names \in Orders(DOMAIN r.finfo), pk \in getPkFieldInfo(r.cache, fs, typ)}

\* What a call returns and leaves: the error, the statements sent, the cache.
OpRet(e, sent, cache) == [err |-> e, sent |-> sent, cache |-> cache]

Statement(text, arguments) == [query |-> text, args |-> arguments]

Table == <<"t">>

\* UpdateDb[T](db, obj, table)
UpdateDb(cache, mapper, fs, typ, db, execFails) ==
    IF db = "nil" THEN {OpRet("panic", <<>>, cache)}
    ELSE IF ~IsStruct(typ) THEN {OpRet(ErrNotStruct, <<>>, cache)}
    ELSE {IF c.err # "nil" THEN OpRet(c.err, <<>>, c.cache)
          ELSE OpRet(IF execFails THEN ErrExec("updating") ELSE "nil",
                     <<Statement(<<"U", "P", "D", "A", "T", "E", " ">> \o Table
                                 \o <<" ", "S", "E", "T", " ">>
                                 \o Join(c.colNames, <<"=", "?", ",">>) \o <<"=", "?">>
                                 \o <<" ", "W", "H", "E", "R", "E", " ">>
                                 \o c.pkCol \o <<"=", "?">>,
                                 c.values)>>,
                     c.cache) :
             c \in prepareColumns(cache, mapper, fs, typ, FALSE)}

\* InsertDb[T](db, obj, table), with prepareInsert and prepareColumns without
\* pkLast: one outcome for each order in which the range over fInfo visits
\* it.  A failing res.LastInsertId changes the error and not the statement.
InsertDb(cache, mapper, fs, typ, db, execFails) ==
    IF db = "nil" THEN {OpRet(ErrNotSet, <<>>, cache)}
    ELSE IF ~IsStruct(typ) THEN {OpRet(ErrNotStruct, <<>>, cache)}
    ELSE {IF \E k \in DOMAIN r.finfo : ~ValidPath(fs, typ, r.finfo[k])
          THEN OpRet("panic", <<>>, r.cache)
          ELSE OpRet(IF execFails THEN ErrExec("inserting into") ELSE "nil",
                     <<Statement(<<"I", "N", "S", "E", "R", "T", " ", "I", "N", "T", "O", " ">>
                                 \o Table \o <<" ", "(">> \o Join(names, <<",", " ">>)
                                 \o <<")", " ", "V", "A", "L", "U", "E", "S", " ", "(">>
                                 \o BuildPlaceholders(Len(names)) \o <<")">>,
                                 [j \in 1..Len(names) |-> r.finfo[names[j]]])>>,
                     r.cache) :
             r \in {getFieldInfo(cache, mapper, fs, typ, FALSE, TRUE)},
             names \in Orders(DOMAIN getFieldInfo(cache, mapper, fs, typ,
                                                  FALSE, TRUE).finfo)}

\* DeleteDb[T](db, pk, table)
DeleteDb(cache, fs, typ, db, pk, execFails) ==
    IF db = "nil" THEN {OpRet(ErrNotSet, <<>>, cache)}
    ELSE IF ~IsStruct(typ) THEN {OpRet(ErrNotStruct, <<>>, cache)}
    ELSE {IF ~r.ok THEN OpRet(ErrPk(r.n), <<>>, cache)
          ELSE OpRet(IF execFails THEN ErrExec("deleting from") ELSE "nil",
                     <<Statement(<<"D", "E", "L", "E", "T", "E", " ", "F", "R", "O", "M", " ">>
                                 \o Table \o <<" ", "W", "H", "E", "R", "E", " ">>
                                 \o r.col \o <<"=", "?">>,
                                 <<pk>>)>>,
                     cache) :
             r \in getPkFieldInfo(cache, fs, typ)}

\* The record types that are inserted, updated and deleted.
OpDecls == {DeclFa, DeclFb, DeclId, DeclKey, DeclTmp, DeclEmb}

\* The primary key passed to DeleteDb.
PkValue == <<7>>

InitOp ==
    /\ prog \in Programs(OpDecls)
    /\ nameMapper = "ToLower"
    /\ fieldInfoCache = NoInfo
    /\ InQueryIdle
    /\ ColsIdle
    /\ ScanIdle
    /\ OtherIdle({})

\* What a call leaves in the variables of InsertDb, UpdateDb and DeleteDb.
Called(name, db, typ, execFails, r) ==
    /\ opCalls < MaxCalls
    /\ opName' = name
    /\ opDb' = db
    /\ opType' = typ
    /\ opExecFails' = execFails
    /\ opErr' = r.err
    /\ opSent' = r.sent
    /\ fieldInfoCache' = r.cache
    /\ opCalls' = opCalls + 1
    /\ UNCHANGED <<prog, nameMapper, inVars, colVars, scanVars, snakeVars, concVars,
                   queryVars, resVars>>

CallUpdateDb ==
    \E db \in {"nil", "db"}, typ \in {"T", "Int"}, execFails \in BOOLEAN :
        \E r \in UpdateDb(fieldInfoCache, nameMapper, prog, typ, db, execFails) :
            Called("UpdateDb", db, typ, execFails, r)

CallDeleteDb ==
    \E db \in {"nil", "db"}, typ \in {"T", "Int"}, execFails \in BOOLEAN :
        \E r \in DeleteDb(fieldInfoCache, prog, typ, db, PkValue, execFails) :
            Called("DeleteDb", db, typ, execFails, r)

CallInsertDb ==
    \E db \in {"nil", "db"}, typ \in {"T", "Int"}, execFails \in BOOLEAN :
        \E r \in InsertDb(fieldInfoCache, nameMapper, prog, typ, db, execFails) :
            Called("InsertDb", db, typ, execFails, r)

NextOp == CallUpdateDb \/ CallDeleteDb \/ CallInsertDb

SpecOp == InitOp /\ [][NextOp]_vars

(***************************************************************************)
(* getFieldInfo called by goroutines.  A step is what a goroutine does to  *)
(* the lock or, holding it, to the cache, with the statements that follow  *)
(* it up to the next such step.  A call in progress is a frame: its type   *)
(* and flags, the index i of the loop, the finfo built so far and the step *)
(* it is at.                                                               *)
(***************************************************************************)
Frame(typ, includePk, applyIgnore) ==
    [typ |-> typ, includePk |-> includePk, applyIgnore |-> applyIgnore,
     i |-> 0, finfo |-> NoInfo, pc |-> "rlock"]

\* The loop over the fields from index fr.i on, up to the call of getFieldInfo
\* for an embedded struct ("call") or to the end of the loop ("lock").
RECURSIVE Advance(_, _, _)
Advance(fr, fs, mapper) ==
    LET fields == TypeFields(fs, fr.typ)
    IN  IF fr.i >= Len(fields) THEN [fr EXCEPT !.pc = "lock"]
        ELSE LET f == fields[fr.i + 1]
             IN  IF Skipped(f, fr.includePk, fr.applyIgnore)
                 THEN Advance([fr EXCEPT !.i = @ + 1], fs, mapper)
                 ELSE IF f.anonymous /\ f.typ # "" /\ ~ImplementsScanner(f.typ)
                 THEN [fr EXCEPT !.pc = "call"]
                 ELSE Advance([fr EXCEPT !.i = @ + 1,
                                         !.finfo = (ColumnName(mapper, f) :> <<fr.i>>) @@ @],
                              fs, mapper)

\* The frames of a goroutine once the frame fr on top of the frames below is
\* run on: a call for an embedded struct puts a frame on top.
RunOn(below, fr, fs, mapper) ==
    LET a == Advance(fr, fs, mapper)
    IN  IF a.pc = "call"
        THEN below \o <<a, Frame(TypeFields(fs, a.typ)[a.i + 1].typ,
                                 a.includePk, a.applyIgnore)>>
        ELSE below \o <<a>>

\* The frames of a goroutine once its top frame has returned finfo: the
\* caller splices it in under its index i and runs on.
Returned(frames, finfo, fs, mapper) ==
    LET below == SubSeq(frames, 1, Len(frames) - 1)
    IN  IF below = <<>> THEN <<>>
        ELSE LET caller == below[Len(below)]
                 spliced == [k \in DOMAIN finfo |-> <<caller.i>> \o finfo[k]]
             IN  RunOn(SubSeq(below, 1, Len(below) - 1),
                       [caller EXCEPT !.i = @ + 1, !.finfo = spliced @@ @],
                       fs, mapper)

Top(g) == stack[g][Len(stack[g])]

\* The record types the goroutines resolve, and the flags the package
\* resolves with: (true, false) to project and scan, (false, true) to insert
\* and update.
ConcDecls == {DeclFa, DeclFdX, DeclId, DeclTmp, DeclEmb, DeclDeep}

Modes == {<<TRUE, FALSE>>, <<FALSE, TRUE>>}

InitConc ==
    /\ prog \in Programs(ConcDecls)
    /\ nameMapper \in {"ToLower", "ToSnakeCase"}
    /\ fieldInfoCache = NoInfo
    /\ InQueryIdle
    /\ ColsIdle
    /\ ScanIdle
    /\ OtherIdle({})

\* The variables no step of a goroutine changes.
ConcFrame ==
    UNCHANGED <<prog, nameMapper, inVars, colVars, scanVars, snakeVars, opVars,
                queryVars, resVars>>

\* A goroutine calls getFieldInfo(typ, includePk, applyIgnore).
Go(g) ==
    /\ request[g] = <<>>
    /\ \E typ \in {"T", "Emb"}, m \in Modes :
          /\ request' = [request EXCEPT ![g] = <<typ, m[1], m[2]>>]
          /\ stack' = [stack EXCEPT ![g] = <<Frame(typ, m[1], m[2])>>]
    /\ UNCHANGED <<fieldInfoCache, lockReaders, lockWriter, result>>
    /\ ConcFrame

\* fieldInfoCacheLock.RLock()
RLockBarging(g) ==
    /\ stack[g] # <<>> /\ Top(g).pc = "rlock"
    /\ lockReaders' = lockReaders \cup {g}
    /\ stack' = [stack EXCEPT ![g][Len(stack[g])].pc = "read"]
    /\ UNCHANGED <<fieldInfoCache, lockWriter, request, result>>
    /\ ConcFrame

RLock(g) ==
    /\ stack[g] # <<>> /\ Top(g).pc = "rlock"
    /\ lockWriter = "none"
    /\ lockReaders' = lockReaders \cup {g}
    /\ stack' = [stack EXCEPT ![g][Len(stack[g])].pc = "read"]
    /\ UNCHANGED <<fieldInfoCache, lockWriter, request, result>>
    /\ ConcFrame

\* finfo, ok := fieldInfoCache[key]; fieldInfoCacheLock.RUnlock()
ReadCache(g) ==
    /\ stack[g] # <<>> /\ Top(g).pc = "read"
    /\ lockReaders' = lockReaders \ {g}
    /\ LET fr == Top(g)
           key == CacheKey(fr.typ, fr.includePk, fr.applyIgnore)
           below == SubSeq(stack[g], 1, Len(stack[g]) - 1)
       IN  IF key \in DOMAIN fieldInfoCache
           THEN /\ stack' = [stack EXCEPT ![g] =
                                Returned(stack[g], fieldInfoCache[key], prog, nameMapper)]
                /\ result' = IF below = <<>>
                             THEN [result EXCEPT ![g] = fieldInfoCache[key]]
                             ELSE result
           ELSE /\ stack' = [stack EXCEPT ![g] = RunOn(below, fr, prog, nameMapper)]
                /\ result' = result
    /\ UNCHANGED <<fieldInfoCache, lockWriter, request>>
    /\ ConcFrame

\* fieldInfoCacheLock.Lock()
Lock(g) ==
    /\ stack[g] # <<>> /\ Top(g).pc = "lock"
    /\ lockWriter = "none" /\ lockReaders = {}
    /\ lockWriter' = g
    /\ stack' = [stack EXCEPT ![g][Len(stack[g])].pc = "write"]
    /\ UNCHANGED <<fieldInfoCache, lockReaders, request, result>>
    /\ ConcFrame

\* fieldInfoCache[key] = finfo; fieldInfoCacheLock.Unlock(); return finfo
WriteCache(g) ==
    /\ stack[g] # <<>> /\ Top(g).pc = "write"
    /\ lockWriter' = "none"
    /\ LET fr == Top(g)
           key == CacheKey(fr.typ, fr.includePk, fr.applyIgnore)
       IN  /\ fieldInfoCache' =
                 (key :> fr.finfo) @@ [k \in DOMAIN fieldInfoCache \ {key} |-> fieldInfoCache[k]]
           /\ stack' = [stack EXCEPT ![g] = Returned(stack[g], fr.finfo, prog, nameMapper)]
           /\ result' = IF Len(stack[g]) = 1
                        THEN [result EXCEPT ![g] = fr.finfo]
                        ELSE result
    /\ UNCHANGED <<lockReaders, request>>
    /\ ConcFrame

NextConc ==
    \E g \in Procs : Go(g) \/ RLock(g) \/ ReadCache(g) \/ Lock(g) \/ WriteCache(g)

SpecConc == InitConc /\ [][NextConc]_vars

(***************************************************************************)
(* QueryDb, QueryRowDb, QueryBasicDb and QueryBasicRowDb.  The execution   *)
(* service is given by what it does in the call (svc): whether db.Query    *)
(* fails, the columns and the number of rows of the cursor, whether        *)
(* Columns fails, the row at which Scan fails (0: none), whether the       *)
(* iteration ends on an error, and whether Close fails.                    *)
(***************************************************************************)
QueryReplace == <<"S", "E", "L", "E", "C", "T", " ", "*">>

\* sql.ErrNoRows
ErrNoRows == "sql: no rows in result set"

\* An error returned by the execution service.
ErrService(what) == "db: " \o what

\* errors.Join(err, nErr) reports both, one on each line.
joinOrErrShadowing(e, nErr) == IF nErr # "nil" THEN nErr ELSE e

joinOrErr(e, nErr) ==
    IF nErr # "nil"
    THEN IF e = "nil" THEN nErr ELSE e \o "\n" \o nErr
    ELSE e

\* err = joinOrErr(err, rows.Close()), deferred
Deferred(e, svc) ==
    joinOrErr(e, IF svc.closeErr THEN ErrService("Close") ELSE "nil")

\* if strings.Contains(query, sqlpin.InQueryReplace) { ... }: whether the
\* function returns there, and the query, the arguments and the error it has.
InExpanded(q, a) ==
    IF Count(q, InQueryReplace) = 0
    THEN [returns |-> FALSE, query |-> q, args |-> a, err |-> "nil"]
    ELSE IF Len(a) = 0
    THEN [returns |-> TRUE, query |-> q, args |-> a, err |-> "nil"]
    ELSE LET r == InQueryResult(q, a)
         IN  [returns |-> r.err # "nil", query |-> r.query, args |-> r.args,
              err |-> r.err]

\* doQueryDb: the outcomes it may have; rows is "nil" or the cursor "rows".
doQueryDb(cache, mapper, fs, db, q, a, svc) ==
    IF db = "nil"
    THEN {[rows |-> "nil", err |-> ErrNotSet, sent |-> <<>>, cache |-> cache]}
    ELSE LET r == getFieldInfo(cache, mapper, fs, "T", TRUE, FALSE)
         IN  {LET x == InExpanded(Replace(q, QueryReplace,
                                          <<"S", "E", "L", "E", "C", "T", " ">>
                                          \o columns(names)), a)
              IN  IF x.returns
                  THEN [rows |-> "nil", err |-> x.err, sent |-> <<>>, cache |-> r.cache]
                  ELSE [rows |-> IF svc.queryFails THEN "nil" ELSE "rows",
                        err |-> IF svc.queryFails THEN ErrService("Query") ELSE "nil",
                        sent |-> <<Statement(x.query, x.args)>>,
                        cache |-> r.cache] :
                names \in Orders(DOMAIN r.finfo)}

\* sliceFromRows: the rows scanned before the first row whose doScan fails.
sliceFromRows(cache, mapper, fs, svc) ==
    LET upTo(scan, bad) ==
            IF bad = {}
            THEN [slice |-> [j \in 1..svc.nRows |-> scan[j].dest], err |-> "nil"]
            ELSE LET stop == CHOOSE j \in bad : \A k \in bad : j <= k
                 IN  [slice |-> [j \in 1..(stop - 1) |-> scan[j].dest],
                      err |-> scan[stop].err]
        loop(scan) == upTo(scan, {j \in 1..svc.nRows : scan[j].err # "nil"})
    IN  loop([j \in 1..svc.nRows |->
                 doScan(cache, mapper, fs, "T", svc.cols, svc.columnsFail,
                        IF j = svc.failRow THEN 1 ELSE 0)])

\* What a call returns and does: the error returned, the error before the
\* deferred rows.Close(), the statements sent to db.Query, whether db.Query
\* returned a cursor, the number of calls of its Close, the results.
QRet(e, primary, sent, opened, closed, results, cache) ==
    [err |-> e, primary |-> primary, sent |-> sent, opened |-> opened,
     closed |-> closed, results |-> results, cache |-> cache]

\* QueryDb[T](db, query, args...)
QueryDb(cache, mapper, fs, db, q, a, svc) ==
    {IF d.err # "nil" THEN QRet(d.err, d.err, d.sent, FALSE, 0, <<>>, d.cache)
     ELSE IF d.rows = "nil" THEN QRet("panic", "nil", d.sent, FALSE, 0, <<>>, d.cache)
     ELSE LET ret(s) ==
                  IF s.err = "panic"
                  THEN QRet("panic", "panic", d.sent, TRUE, 1, s.slice, d.cache)
                  ELSE QRet(Deferred(s.err, svc), s.err, d.sent, TRUE, 1,
                            s.slice, d.cache)
          IN  ret(sliceFromRows(d.cache, mapper, fs, svc)) :
        d \in doQueryDb(cache, mapper, fs, db, q, a, svc)}

\* QueryRowDb[T](db, query, args...)
QueryRowDb(cache, mapper, fs, db, q, a, svc) ==
    {IF d.err # "nil" THEN QRet(d.err, d.err, d.sent, FALSE, 0, <<>>, d.cache)
     ELSE IF d.rows = "nil" THEN QRet("panic", "nil", d.sent, FALSE, 0, <<>>, d.cache)
     ELSE IF svc.nRows = 0
     THEN QRet(Deferred(ErrNoRows, svc), ErrNoRows, d.sent, TRUE, 1,
               <<>>, d.cache)
     ELSE LET ret(s) ==
                  IF s.err = "panic"
                  THEN QRet("panic", "panic", d.sent, TRUE, 1, <<>>, d.cache)
                  ELSE QRet(Deferred(s.err, svc), s.err, d.sent, TRUE, 1,
                            <<s.dest>>, d.cache)
          IN  ret(doScan(d.cache, mapper, fs, "T", svc.cols, svc.columnsFail,
                         IF svc.failRow = 1 THEN 1 ELSE 0)) :
        d \in doQueryDb(cache, mapper, fs, db, q, a, svc)}

\* QueryBasicDb[T](db, query, args...); the value of row j is j.
QueryBasicDb(cache, db, q, a, svc) ==
    LET x == InExpanded(q, a)
        sent == <<Statement(x.query, x.args)>>
        primary == IF svc.failRow > 0 THEN ErrScan ELSE "nil"
    IN  IF x.returns THEN {QRet(x.err, x.err, <<>>, FALSE, 0, <<>>, cache)}
        ELSE IF db = "nil" THEN {QRet("panic", "nil", <<>>, FALSE, 0, <<>>, cache)}
        ELSE IF svc.queryFails
        THEN {QRet(ErrService("Query"), ErrService("Query"), sent, FALSE, 0, <<>>, cache)}
        ELSE {QRet(Deferred(primary, svc), primary, sent, TRUE, 1,
                   [j \in 1..(IF svc.failRow > 0 THEN svc.failRow - 1 ELSE svc.nRows)
                      |-> j],
                   cache)}

\* QueryBasicRowDb[T](db, query, args...)
QueryBasicRowDb(cache, db, q, a, svc) ==
    LET x == InExpanded(q, a)
        sent == <<Statement(x.query, x.args)>>
        primary == IF svc.nRows = 0 THEN ErrNoRows
                   ELSE IF svc.failRow = 1 THEN ErrScan ELSE "nil"
    IN  IF x.returns THEN {QRet(x.err, x.err, <<>>, FALSE, 0, <<>>, cache)}
        ELSE IF db = "nil" THEN {QRet("panic", "nil", <<>>, FALSE, 0, <<>>, cache)}
        ELSE IF svc.queryFails
        THEN {QRet(ErrService("Query"), ErrService("Query"), sent, FALSE, 0, <<>>, cache)}
        ELSE {QRet(Deferred(primary, svc), primary, sent, TRUE, 1,
                   IF primary = "nil" THEN <<1>> ELSE <<>>, cache)}

\* The program calls one of the functions with a template and arguments.
InitQuery ==
    /\ prog \in Programs({DeclFa, DeclFdX})
    /\ nameMapper = "ToLower"
    /\ fieldInfoCache = NoInfo
    /\ qPc = "ready"
    /\ qFn = ""
    /\ qDb = "db"
    /\ qQuery \in {Concat(ts) :
                      ts \in {<<QueryReplace>>, <<QueryReplace, <<"x">>, InQueryReplace>>,
                              <<QueryReplace, <<"?">>, InQueryReplace>>,
                              <<QueryReplace, InQueryReplace, <<"?">>>>,
                              <<QueryReplace, InQueryReplace, InQueryReplace>>,
                              <<<<"x">>, <<"?">>>>, <<InQueryReplace>>}}
    /\ qArgs \in {[i \in 1..Len(shapes) |-> ArgOfShape(i, shapes[i])] :
                     shapes \in {<<>>, <<-1>>, <<2>>, <<0>>, <<-1, 2>>, <<-1, 0>>,
                                 <<2, -1>>, <<-1, -1>>}}
    /\ qSvc = <<>>
    /\ qRet = <<>>
    /\ InQueryIdle
    /\ ColsIdle
    /\ ScanIdle
    /\ OtherIdle({"query"})

\* A call of fn, with what the execution service does in it.
CallQuery(fn) ==
    /\ qPc = "ready"
    /\ \E db \in {"nil", "db"}, queryFails, columnsFail, iterErr, closeErr \in BOOLEAN,
          nRows \in 0..MaxRows, failRow \in 0..MaxRows,
          names \in Orders(DOMAIN getFieldInfo(NoInfo, nameMapper, prog, "T",
                                               TRUE, FALSE).finfo) :
          LET svc == [queryFails |-> queryFails, cols |-> getColumns(names),
                      columnsFail |-> columnsFail, nRows |-> nRows,
                      failRow |-> failRow, iterErr |-> iterErr, closeErr |-> closeErr]
          IN  /\ failRow <= nRows
              /\ queryFails => nRows = 0 /\ ~columnsFail /\ ~iterErr /\ ~closeErr
              /\ columnsFail => failRow = 0 /\ fn \in {"QueryDb", "QueryRowDb"}
              /\ \E r \in (IF fn = "QueryDb"
                            THEN QueryDb(fieldInfoCache, nameMapper, prog, db,
                                         qQuery, qArgs, svc)
                            ELSE IF fn = "QueryRowDb"
                            THEN QueryRowDb(fieldInfoCache, nameMapper, prog, db,
                                            qQuery, qArgs, svc)
                            ELSE IF fn = "QueryBasicDb"
                            THEN QueryBasicDb(fieldInfoCache, db, qQuery, qArgs, svc)
                            ELSE QueryBasicRowDb(fieldInfoCache, db, qQuery, qArgs, svc)) :
                    /\ qRet' = [r EXCEPT !.cache = <<>>]
                    /\ fieldInfoCache' = r.cache
              /\ qSvc' = svc
              /\ qDb' = db
    /\ qFn' = fn
    /\ qPc' = "done"
    /\ UNCHANGED <<prog, nameMapper, qQuery, qArgs, inVars, colVars, scanVars,
                   snakeVars, opVars, concVars, resVars>>

NextQuery ==
    \/ CallQuery("QueryDb")
    \/ CallQuery("QueryRowDb")
    \/ CallQuery("QueryBasicDb")
    \/ CallQuery("QueryBasicRowDb")

SpecQuery == InitQuery /\ [][NextQuery]_vars

(***************************************************************************)
(* What the claims about InQuery speak of, stated without the operators    *)
(* of the model: the places of the marker, the ordinary placeholders, the  *)
(* text around the marker and a list of n placeholders.                    *)
(***************************************************************************)
MarkerPlaces(q) ==
    {p \in 0..(Len(q) - Len(InQueryReplace)) :
        \A j \in 1..Len(InQueryReplace) : q[p + j] = InQueryReplace[j]}

NumQ(s) == Cardinality({i \in 1..Len(s) : s[i] = "?"})

OneMarker == Cardinality(MarkerPlaces(query)) = 1
MarkerPlace == CHOOSE p \in MarkerPlaces(query) : TRUE
TextBefore == [i \in 1..MarkerPlace |-> query[i]]
TextAfter ==
    [i \in 1..(Len(query) - MarkerPlace - Len(InQueryReplace)) |->
        query[MarkerPlace + Len(InQueryReplace) + i]]

\* The place in the argument list of the argument that supplies the IN-list.
MarkerSlot == NumQ(TextBefore)

\* "IN (?, ?, ..., ?)" with n placeholders, n >= 1.
InWith(n) ==
    <<"I", "N", " ", "(">>
    \o [i \in 1..(3 * n - 2) |->
            IF i % 3 = 1 THEN "?" ELSE IF i % 3 = 2 THEN "," ELSE " "]
    \o <<")">>

EmptyIn == <<"I", "N", " ", "(", ")">>
ContainsEmptyIn(s) ==
    \E p \in 0..(Len(s) - Len(EmptyIn)) :
        \A j \in 1..Len(EmptyIn) : s[p + j] = EmptyIn[j]

MarkerAlone == OneMarker /\ NumQ(query) = 0
MarkerAmongOthers == OneMarker /\ NumQ(query) >= 1
IsSeq(a) == a.kind = "slice"
Flat(a) == \A i \in 1..Len(a) : ~IsSeq(a[i])
Succeeded == pc = "done" /\ err = "nil"

\* The argument list is aligned with the template on input.
Aligned ==
    \/ /\ NumQ(query) >= 1
       /\ Len(args) = NumQ(query) + 1
       /\ IsSeq(args[MarkerSlot + 1])
    \/ /\ NumQ(query) = 0
       /\ \/ Len(args) = 1 /\ IsSeq(args[1])
          \/ Flat(args)

\* The input list with the sequence in the marker's slot spliced in.
Spliced ==
    LET n == Len(args[MarkerSlot + 1].elems)
    IN  [i \in 1..(Len(args) - 1 + n) |->
            IF i <= MarkerSlot THEN args[i]
            ELSE IF i <= MarkerSlot + n
                 THEN [kind |-> "scalar", v |-> args[MarkerSlot + 1].elems[i - MarkerSlot],
                       elems |-> <<>>]
                 ELSE args[i - n + 1]]

\* The input list without the argument in the marker's slot.
Removed ==
    [i \in 1..(Len(args) - 1) |-> IF i <= MarkerSlot THEN args[i] ELSE args[i + 1]]

\* C1: with exactly one marker and an argument list aligned on input, a
\* successful InQuery returns a template with as many '?' as returned arguments.
C1_Alignment ==
    (Succeeded /\ OneMarker /\ Aligned) => NumQ(newQuery) = Len(newArgs)

C1_Witness ==
    /\ Succeeded /\ OneMarker /\ Aligned
    /\ NumQ(query) >= 1
    /\ Len(newArgs) > Len(args)

\* C2: marker among other placeholders and a non-empty sequence of length N in
\* the marker's slot: the returned arguments are the arguments before the slot,
\* the N elements in order, the arguments after the slot, and the marker is
\* replaced by "IN (" + N placeholders + ")" with the rest of the template kept.
C2_Flatten ==
    (/\ pc = "done" /\ MarkerAmongOthers
     /\ Len(args) > MarkerSlot
     /\ IsSeq(args[MarkerSlot + 1])
     /\ Len(args[MarkerSlot + 1].elems) >= 1)
    => /\ err = "nil"
       /\ newArgs = Spliced
       /\ newQuery = TextBefore \o InWith(Len(args[MarkerSlot + 1].elems)) \o TextAfter

C2_Witness ==
    /\ pc = "done" /\ MarkerAmongOthers
    /\ Len(args) = 3 /\ MarkerSlot = 1
    /\ IsSeq(args[2]) /\ Len(args[2].elems) = 2
    /\ Len(newArgs) = 4

\* C3: marker alone and the sole argument a non-empty sequence of length N:
\* the marker becomes "IN (" + N placeholders + ")" and the returned arguments
\* are the N elements in their order.
C3_SoleSequence ==
    (/\ pc = "done" /\ MarkerAlone
     /\ Len(args) = 1 /\ IsSeq(args[1]) /\ Len(args[1].elems) >= 1)
    => /\ err = "nil"
       /\ newQuery = TextBefore \o InWith(Len(args[1].elems)) \o TextAfter
       /\ Len(newArgs) = Len(args[1].elems)
       /\ \A i \in 1..Len(newArgs) :
            newArgs[i].kind = "scalar" /\ newArgs[i].v = args[1].elems[i]

C3_Witness ==
    /\ pc = "done" /\ MarkerAlone
    /\ Len(args) = 1 /\ IsSeq(args[1]) /\ Len(args[1].elems) = 2
    /\ Len(newArgs) = 2

\* C4: marker alone and the arguments a single scalar or several flat
\* arguments: the marker becomes "IN (" + len(args) placeholders + ")" and the
\* argument list is returned unchanged.
C4_FlatArguments ==
    (pc = "done" /\ MarkerAlone /\ Len(args) >= 1 /\ Flat(args))
    => /\ err = "nil"
       /\ newQuery = TextBefore \o InWith(Len(args)) \o TextAfter
       /\ newArgs = args

C4_Witness ==
    /\ pc = "done" /\ MarkerAlone /\ Len(args) = 3 /\ Flat(args)
    /\ Len(newArgs) = 3

\* C5: with one marker, a successful InQuery never returns a template with an
\* empty list "IN ()"; with the marker alone and no arguments, or a sole empty
\* sequence, the marker becomes "= FALSE" and no arguments are returned.
C5_EmptyIsFalse ==
    (pc = "done" /\ OneMarker)
    => /\ err = "nil" => ~ContainsEmptyIn(newQuery)
       /\ (/\ NumQ(query) = 0
           /\ \/ Len(args) = 0
              \/ Len(args) = 1 /\ IsSeq(args[1]) /\ Len(args[1].elems) = 0)
          => /\ err = "nil"
             /\ newQuery = TextBefore \o FalsePredicate \o TextAfter
             /\ newArgs = <<>>

C5_Witness ==
    /\ pc = "done" /\ MarkerAlone
    /\ Len(args) = 1 /\ IsSeq(args[1]) /\ Len(args[1].elems) = 0
    /\ newArgs = <<>>

\* C6: marker among other placeholders and an empty sequence in the marker's
\* slot: the marker becomes "= FALSE" and the returned list is the input list
\* without that one argument, the others in their order; for an input list
\* aligned with the template it has one entry for each remaining '?'.
C6_EmptySpliced ==
    (/\ pc = "done" /\ MarkerAmongOthers
     /\ Len(args) > MarkerSlot
     /\ IsSeq(args[MarkerSlot + 1])
     /\ Len(args[MarkerSlot + 1].elems) = 0)
    => /\ err = "nil"
       /\ newQuery = TextBefore \o FalsePredicate \o TextAfter
       /\ newArgs = Removed
       /\ Len(args) = NumQ(query) + 1 => Len(newArgs) = NumQ(newQuery)

C6_Witness ==
    /\ pc = "done" /\ MarkerAmongOthers
    /\ Len(args) = 3 /\ MarkerSlot = 1
    /\ IsSeq(args[2]) /\ Len(args[2].elems) = 0
    /\ Len(newArgs) = 2

\* C7: a template with the marker more than once fails with the usage error
\* for every argument list, before anything is rewritten, and returns an empty
\* template and no arguments.
C7_OnlyOneMarker ==
    (pc = "done" /\ Cardinality(MarkerPlaces(query)) > 1)
    => /\ err = ErrOnlyOne
       /\ newQuery = <<>>
       /\ newArgs = <<>>
       /\ callerArgs = args

C7_Witness ==
    /\ pc = "done" /\ Cardinality(MarkerPlaces(query)) = 2
    /\ NumQ(query) = 1 /\ Len(args) = 2
    /\ err = ErrOnlyOne

\* C8: marker among other placeholders: argIndex is the number of ordinary '?'
\* before the marker, and the call fails with the arity error exactly when
\* there are fewer than argIndex+1 arguments, returning an empty template and
\* no arguments.
C8_Arity ==
    (pc = "done" /\ MarkerAmongOthers)
    => /\ ArgIndex(query) = MarkerSlot
       /\ err = ErrNotEnough <=> Len(args) < MarkerSlot + 1
       /\ err = ErrNotEnough => newQuery = <<>> /\ newArgs = <<>>

C8_Witness ==
    /\ pc = "done" /\ MarkerAmongOthers
    /\ MarkerSlot = 1 /\ NumQ(query) = 2 /\ Len(args) = 1
    /\ err = ErrNotEnough

(***************************************************************************)
(* What the claim about the column projector speaks of.                    *)
(***************************************************************************)
\* a comes before b in the lexicographic order of their bytes.
Precedes(a, b) ==
    \E k \in 0..Len(a) :
        /\ k <= Len(b)
        /\ \A i \in 1..k : a[i] = b[i]
        /\ \/ k = Len(a) /\ k < Len(b)
           \/ k < Len(a) /\ k < Len(b) /\ Code(a[k + 1]) < Code(b[k + 1])

Ascending(s) == \A i \in 1..(Len(s) - 1) : Precedes(s[i], s[i + 1])

\* The names of S in ascending order.
AscendingList(S) == CHOOSE s \in Orders(S) : Ascending(s)

RECURSIVE CommaList(_)
CommaList(s) ==
    IF Len(s) = 0 THEN <<>>
    ELSE IF Len(s) = 1 THEN s[1]
    ELSE CommaList(SubSeq(s, 1, Len(s) - 1)) \o <<",", " ">> \o s[Len(s)]

\* The record types that declare the fields of T in another order.
Reorderings(fs) == {[i \in 1..Len(fs) |-> fs[o[i]]] : o \in Orders(1..Len(fs))}

\* C9: the projection is the ascending list of the logical names resolved for
\* (T, includePrimaryKey = true, applyIgnoreMarkers = false), joined with
\* ", ", whatever order the map is visited in; a second call returns the same
\* string, whether the first found the cache empty or populated; and a type
\* that declares the same fields in another order has the same projection.
C9_Projection ==
    colsCalls >= 1 =>
        /\ colsInfo = fieldInfoCache[CacheKey("T", TRUE, FALSE)]
        /\ colsOut = CommaList(AscendingList(DOMAIN colsInfo))
        /\ colsCalls >= 2 => colsOut = colsPrev
        /\ colsCold =>
              \A fs \in Reorderings(prog) :
                  DOMAIN getFieldInfo(NoInfo, colsMapper, fs, "T", TRUE, FALSE).finfo
                    = DOMAIN colsInfo

C9_Witness ==
    /\ colsCalls = 2
    /\ colsCold
    /\ Len(prog) = 2
    /\ prog[1] = DeclFdX /\ prog[2] = DeclEmb
    /\ colsOut = <<"f", "a", ",", " ", "f", "d", "x", ",", " ", "f", "e">>

(***************************************************************************)
(* What the claim about the row scanner speaks of.                         *)
(***************************************************************************)
\* The logical name a reported column is looked up under.
LookedUp(j) == ApplyMapper(scanMapper, scanCols[j])

\* Column j is mapped to a field of dest by the resolved metadata.
Mapped(j) == LookedUp(j) \in DOMAIN scanInfo

\* The field at path p is the field of a reported column, or lies within it.
Reported(p) ==
    \E j \in 1..Len(scanCols) : Mapped(j) /\ IsPrefix(scanInfo[LookedUp(j)], p)

\* C10: after a row is scanned, every field of dest whose mapped column (the
\* name the resolved metadata holds it under, reported columns being looked
\* up through NameMapper) is not among the reported columns has its prior,
\* zero value; a reported column with no mapping gets the discard target, and
\* a row of such columns alone is scanned without an error.
C10_ScanFrame ==
    (scanPc = "scanned" /\ IsStruct(scanType)) =>
        /\ \A p \in Slots(prog, scanType) : ~Reported(p) => scanDest[p] = 0
        /\ \A j \in 1..Len(scanTargets) : ~Mapped(j) => scanTargets[j] = Discard
        /\ (/\ ~scanColumnsFail /\ scanFailAt = 0
            /\ \A j \in 1..Len(scanCols) : ~Mapped(j))
           => /\ scanErr = "nil"
              /\ Len(scanTargets) = Len(scanCols)
              /\ \A p \in Slots(prog, scanType) : scanDest[p] = 0

C10_Witness ==
    /\ scanPc = "scanned" /\ scanType = "T"
    /\ prog = <<DeclFb, DeclFdX>>
    /\ scanCols = <<<<"F", "b">>, <<"f", "a">>>>
    /\ DOMAIN scanInfo = {<<"f", "d", "x">>}
    /\ scanErr = "nil"
    /\ scanTargets = <<Discard, Discard>>

(***************************************************************************)
(* What the claim about the scan targets speaks of.                        *)
(***************************************************************************)
\* The resolved path of every mapped column reaches a field of dest.
PathsReachFields ==
    \A j \in 1..Len(scanCols) :
        Mapped(j) => ValidPath(prog, scanType, scanInfo[LookedUp(j)])

\* C11: when the cursor reports its columns, doScan hands the cursor's Scan,
\* in one call, one target for each reported column in the cursor's order:
\* the resolved field path of the name-mapped column when the resolved
\* metadata holds it, the discard target otherwise.
C11_ScanTargets ==
    (/\ scanPc = "scanned" /\ IsStruct(scanType)
     /\ ~scanColumnsFail /\ PathsReachFields)
    => /\ scanCalled = 1
       /\ Len(scanTargets) = Len(scanCols)
       /\ \A j \in 1..Len(scanCols) :
            scanTargets[j] = IF Mapped(j) THEN scanInfo[LookedUp(j)] ELSE Discard
       /\ scanErr = (IF scanFailAt = 0 THEN "nil" ELSE ErrScan)

C11_Witness ==
    /\ scanPc = "scanned" /\ scanType = "T"
    /\ prog = <<DeclFdX, DeclEmb>>
    /\ scanCols = <<<<"f", "a">>, <<"F", "b">>>>
    /\ scanTargets = <<<<1, 1>>, Discard>>
    /\ scanCalled = 1
    /\ scanDest[<<1, 1>>] = 1

(***************************************************************************)
(* What the claim about ToSnakeCase speaks of.                             *)
(***************************************************************************)
\* The places of src where an underscore is due: an upper-case character
\* that is not the first and whose predecessor is not upper-case.
Breaks(src) ==
    {i \in 2..Len(src) : src[i] \in UpperSet /\ src[i - 1] \notin UpperSet}

\* The place in the result of the character in place i of src.
PlaceOf(src, i) == i + Cardinality({b \in Breaks(src) : b <= i})

\* C12: the result of ToSnakeCase has the characters of src in their order,
\* each lower-cased, with one underscore right before each character that is
\* upper-case, not the first and not preceded by an upper-case character, and
\* nothing else; FirstName gives first_name, First gives first and firstName
\* gives first_name.
C12_SnakeCase ==
    snakePc = "done" =>
        /\ Len(snakeOut) = Len(snakeSrc) + Cardinality(Breaks(snakeSrc))
        /\ \A i \in 1..Len(snakeSrc) :
              /\ snakeOut[PlaceOf(snakeSrc, i)]
                    = (IF snakeSrc[i] \in UpperSet THEN LowerOf[snakeSrc[i]]
                       ELSE snakeSrc[i])
              /\ i \in Breaks(snakeSrc) => snakeOut[PlaceOf(snakeSrc, i) - 1] = "_"
        /\ snakeSrc = <<"F", "i", "r", "s", "t", "N", "a", "m", "e">>
              => snakeOut = <<"f", "i", "r", "s", "t", "_", "n", "a", "m", "e">>
        /\ snakeSrc = <<"F", "i", "r", "s", "t">>
              => snakeOut = <<"f", "i", "r", "s", "t">>
        /\ snakeSrc = <<"f", "i", "r", "s", "t", "N", "a", "m", "e">>
              => snakeOut = <<"f", "i", "r", "s", "t", "_", "n", "a", "m", "e">>

C12_Witness ==
    /\ snakePc = "done"
    /\ snakeSrc = <<"a", "F", "N">>
    /\ snakeOut = <<"a", "_", "f", "n">>

(***************************************************************************)
(* What the claims about the primary key speak of.                         *)
(***************************************************************************)
\* The fields of fs that carry the primary-key marker, by their index.
PkMarked(fs) == {i \in 0..(Len(fs) - 1) : fs[i + 1].pk}

\* The descriptors of finfo that are descriptors of such a field.
PkDescriptors(finfo, fs) ==
    {k \in DOMAIN finfo : \E i \in PkMarked(fs) : finfo[k] = <<i>>}

C14_ExactlyOnePk ==
    (/\ opCalls >= 1 /\ opName \in {"UpdateDb", "DeleteDb"}
     /\ opDb = "db" /\ IsStruct(opType))
    => IF Cardinality(PkMarked(prog)) = 1
       THEN /\ opErr = (IF ~opExecFails THEN "nil"
                        ELSE IF opName = "UpdateDb" THEN ErrExec("updating")
                        ELSE ErrExec("deleting from"))
            /\ Len(opSent) = 1
       ELSE /\ opErr = ErrPk(Cardinality(PkMarked(prog)))
            /\ opSent = <<>>

C14_Witness ==
    /\ opCalls >= 1 /\ opDb = "db" /\ opType = "T"
    /\ opName = "UpdateDb"
    /\ prog = <<DeclId, DeclKey>>
    /\ opErr = ErrPk(2)
    /\ opSent = <<>>

(***************************************************************************)
(* What the claim about the lifecycle of the cache speaks of.              *)
(***************************************************************************)
\* C15: an entry of the cache stays in the cache with the value it has; a
\* resolution leaves an entry for its key; and a resolution of a key that
\* has an entry returns the value of the entry, whatever a fresh computation
\* would give by now.
C15_CacheLifecycle ==
    [][/\ \A k \in DOMAIN fieldInfoCache :
             k \in DOMAIN fieldInfoCache' /\ fieldInfoCache'[k] = fieldInfoCache[k]
       /\ colsCalls' # colsCalls
             => /\ CacheKey("T", TRUE, FALSE) \in DOMAIN fieldInfoCache'
                /\ CacheKey("T", TRUE, FALSE) \in DOMAIN fieldInfoCache
                      => colsInfo' = fieldInfoCache[CacheKey("T", TRUE, FALSE)]]_vars

C15_Witness ==
    /\ colsCalls = 2
    /\ colsCold
    /\ colsMapper = "ToSnakeCase"
    /\ nameMapper = "ToLower"
    /\ prog = <<DeclFdX, DeclEmb>>
    /\ colsOut = colsPrev
    /\ DOMAIN colsInfo = {<<"f", "d", "_", "x">>, <<"f", "e">>, <<"f", "a">>}
    /\ DOMAIN fieldInfoCache = {CacheKey("T", TRUE, FALSE), CacheKey("Emb", TRUE, FALSE)}

(***************************************************************************)
(* What the claim about concurrent resolutions speaks of.                  *)
(***************************************************************************)
\* The resolution of a key by a program that resolves nothing else.
Sequential(typ, includePk, applyIgnore) ==
    getFieldInfo(NoInfo, nameMapper, prog, typ, includePk, applyIgnore).finfo

\* C16: at every point of every interleaving, a goroutine that has been
\* returned metadata holds the sequential resolution of its key; every value
\* in the cache is the complete resolution of its key, so that the later of
\* two racing writes stores what the earlier stored; a goroutine reads the
\* cache holding the lock shared and writes it holding the lock exclusively,
\* and the lock is never held both ways.
C16_Concurrent ==
    /\ \A g \in Procs :
          (request[g] # <<>> /\ stack[g] = <<>>)
          => result[g] = Sequential(request[g][1], request[g][2], request[g][3])
    /\ \A typ \in {"T", "Emb", "Deep"}, m \in Modes :
          CacheKey(typ, m[1], m[2]) \in DOMAIN fieldInfoCache
          => fieldInfoCache[CacheKey(typ, m[1], m[2])] = Sequential(typ, m[1], m[2])
    /\ \A g \in Procs :
          stack[g] # <<>>
          => /\ Top(g).pc = "read" => g \in lockReaders /\ lockWriter = "none"
             /\ Top(g).pc = "write" => lockWriter = g /\ lockReaders = {}
             /\ Top(g).pc \notin {"read"} => g \notin lockReaders
             /\ Top(g).pc \notin {"write"} => lockWriter # g
    /\ \A g \in Procs : stack[g] = <<>> => g \notin lockReaders /\ lockWriter # g

\* Two first resolutions of (T, true, false) race: both missed the cache,
\* one has written its value and returned, the other is about to write.
C16_Witness ==
    /\ request["g1"] = <<"T", TRUE, FALSE>>
    /\ request["g2"] = <<"T", TRUE, FALSE>>
    /\ prog = <<DeclDeep, DeclFdX>>
    /\ stack["g1"] = <<>>
    /\ DOMAIN result["g1"] = {<<"f", "g", "h">>, <<"f", "e">>, <<"f", "a">>, <<"f", "d", "x">>}
    /\ Len(stack["g2"]) = 1
    /\ Top("g2").pc = "write"
    /\ CacheKey("T", TRUE, FALSE) \in DOMAIN fieldInfoCache

(***************************************************************************)
(* What the claim about closing the cursor speaks of.                      *)
(***************************************************************************)
\* C17: when db.Query returned a cursor, the function calls its Close once,
\* and returns nil when the error of the function body and the error of
\* Close are both nil, the one that is not nil when one is, and an error
\* that reports both, the error of the body first, when neither is.
C17_CloseJoined ==
    (qPc = "done" /\ qRet.opened)
    => /\ qRet.closed = 1
       /\ qRet.err =
             (IF qRet.primary = "nil"
              THEN (IF qSvc.closeErr THEN ErrService("Close") ELSE "nil")
              ELSE IF ~qSvc.closeErr THEN qRet.primary
              ELSE qRet.primary \o "\n" \o ErrService("Close"))
       /\ qRet.primary =
             (IF qFn \in {"QueryRowDb", "QueryBasicRowDb"} /\ qSvc.nRows = 0
              THEN ErrNoRows
              ELSE IF qSvc.columnsFail /\ qSvc.nRows > 0 THEN ErrColumns
              ELSE IF qSvc.failRow = 0 THEN "nil"
              ELSE IF qFn \in {"QueryRowDb", "QueryBasicRowDb"} /\ qSvc.failRow > 1
              THEN "nil"
              ELSE ErrScan)

C17_Witness ==
    /\ qPc = "done" /\ qRet.opened
    /\ qFn = "QueryDb"
    /\ qSvc.nRows = 2 /\ qSvc.failRow = 2 /\ qSvc.closeErr
    /\ qRet.closed = 1
    /\ Len(qRet.results) = 1
    /\ qRet.err = ErrScan \o "\n" \o ErrService("Close")

(***************************************************************************)
(* What the claim about the failures of InQuery speaks of.                 *)
(***************************************************************************)
\* C18: for every template and every argument list, InQuery returns: a
\* rewritten template with its arguments, or an error; it never aborts.
C18_NeverAborts ==
    pc = "done" => err # "panic"


(***************************************************************************)
(* C19, C20: what getFieldInfo resolves for the fields of T.               *)
(***************************************************************************)
\* The field may appear under the flags of the call: it is exported, is not
\* tagged "-", is not ignore-marked while applyIgnore is set and is not
\* marked as primary key while includePk is unset.
Eligible(f) ==
    /\ f.exported
    /\ f.tag # Dash
    /\ ~(resMode[2] /\ f.ign)
    /\ ~(~resMode[1] /\ f.pk)

\* The record types with a Scan method.
ScannerTypes == {"Null"}

\* The field is an embedded sub-record.
IsEmbeddedStruct(f) == f.anonymous /\ f.typ # ""

\* The metadata of the sub-record a field embeds, under the flags of the call.
SubInfo(f) ==
    getFieldInfo(NoInfo, nameMapper, prog, f.typ, resMode[1], resMode[2]).finfo

\* The column names the field in place i stands for.
Contributes(i) ==
    IF IsEmbeddedStruct(prog[i]) /\ prog[i].typ \notin ScannerTypes
    THEN DOMAIN SubInfo(prog[i])
    ELSE {ColumnName(nameMapper, prog[i])}

\* A field declared after place i stands for the name k as well and holds it.
Overridden(i, k) ==
    \E j \in (i + 1)..Len(prog) :
        /\ Eligible(prog[j])
        /\ k \in Contributes(j)
        /\ resInfo[k][1] = j - 1

C20_Embedded ==
    resPc = "done" =>
        \A i \in 1..Len(prog) :
            Eligible(prog[i]) /\ IsEmbeddedStruct(prog[i]) =>
                IF prog[i].typ \notin ScannerTypes
                THEN /\ \A k \in DOMAIN SubInfo(prog[i]) :
                           /\ k \in DOMAIN resInfo
                           /\ \/ resInfo[k] = <<i - 1>> \o SubInfo(prog[i])[k]
                              \/ Overridden(i, k)
                     /\ \A k \in DOMAIN resInfo : resInfo[k] # <<i - 1>>
                     /\ \A k \in DOMAIN resInfo :
                           resInfo[k][1] = i - 1 =>
                               ValidPath(prog, "T", resInfo[k])
                ELSE LET k == ColumnName(nameMapper, prog[i])
                     IN  /\ k \in DOMAIN resInfo
                         /\ resInfo[k] = <<i - 1>> \/ Overridden(i, k)
                         /\ \A n \in DOMAIN resInfo :
                               resInfo[n][1] = i - 1 => resInfo[n] = <<i - 1>>

\* T { Null `sql:"ff"`; Deep } with Deep { FgH string; Emb }: Null keeps one
\* descriptor, the fields of Emb are reached through Deep.
C20_Witness ==
    /\ resPc = "done"
    /\ prog = <<DeclNull, DeclDeep>>
    /\ nameMapper = "ToLower"
    /\ resInfo = (<<"f", "f">> :> <<0>>) @@ (<<"f", "g", "h">> :> <<1, 0>>)
                   @@ (<<"f", "e">> :> <<1, 1, 0>>) @@ (<<"f", "a">> :> <<1, 1, 1>>)


(***************************************************************************)
(* C21: the column name of a field.                                        *)
(***************************************************************************)
\* The field in place i gets a descriptor of its own, under its own name.
Named(i) ==
    /\ Eligible(prog[i])
    /\ ~(IsEmbeddedStruct(prog[i]) /\ prog[i].typ \notin ScannerTypes)

\* The name-mapping function of the program, applied to s.
MappedName(s) == IF nameMapper = "ToLower" THEN ToLower(s) ELSE ToSnakeCase(s)

Holders(k) == {i \in 1..Len(prog) : Eligible(prog[i]) /\ k \in Contributes(i)}

\* The last of them in the order of declaration.
LastHolder(k) == CHOOSE i \in Holders(k) : \A j \in Holders(k) : j <= i

\* The descriptor the field in place i has for the name k.
OwnPath(i, k) ==
    IF IsEmbeddedStruct(prog[i]) /\ prog[i].typ \notin ScannerTypes
    THEN <<i - 1>> \o SubInfo(prog[i])[k]
    ELSE <<i - 1>>

\* C22: the resolved metadata holds one descriptor for each column name a
\* field of T stands for, and where several fields (declared directly or
\* reached through an embedded struct) stand for the same name, it is the
\* descriptor of the field declared last, whichever of them is embedded.
C22_LaterWins ==
    resPc = "done" =>
        /\ DOMAIN resInfo = {k \in UNION {Contributes(i) : i \in 1..Len(prog)} :
                                Holders(k) # {}}
        /\ \A k \in DOMAIN resInfo : resInfo[k] = OwnPath(LastHolder(k), k)

\* T { Fa string `sql:"fa"`; Emb } with Emb { Fe; Fa `sql:"fa"` }: the name
\* fa leads to the field of the embedded struct, declared later.
C22_Witness ==
    /\ resPc = "done"
    /\ prog = <<DeclFa, DeclEmb>>
    /\ resInfo = (<<"f", "e">> :> <<1, 0>>) @@ (<<"f", "a">> :> <<1, 1>>)

\* T { Emb; Fa string `sql:"fa"` }: the name fa leads to the field declared
\* directly, after the embedded struct.
C22_WitnessDirect ==
    /\ resPc = "done"
    /\ prog = <<DeclEmb, DeclFa>>
    /\ resInfo = (<<"f", "e">> :> <<0, 0>>) @@ (<<"f", "a">> :> <<1>>)


(***************************************************************************)
(* C23: what the cache is keyed by.                                        *)
(***************************************************************************)
\* T embeds no struct, so that its metadata rests on no other cache entry.
NoEmbedding == \A i \in 1..Len(prog) : ~prog[i].anonymous

\* C23: the cache is keyed by the identity of the type and by the flags: the
\* four flag combinations of T have four keys, and what columns resolves for
\* T is the metadata of T (as computed at its first resolution), never that
\* of another type resolved before, even one whose printed name is the same.
C23_KeyedByIdentity ==
    /\ Cardinality({CacheKey("T", ip, ai) : ip, ai \in BOOLEAN}) = 4
    /\ (colsCalls >= 1 /\ NoEmbedding)
          => colsInfo = getFieldInfo(NoInfo, colsMapper, prog, "T", TRUE, FALSE).finfo


(***************************************************************************)
(* C24: the cache and the current state of the program.                    *)
(***************************************************************************)
\* C24: whatever resolutions, projections and assignments of NameMapper went
\* before, the entry the cache holds for a record type is what resolving
\* the type afresh would give now.  (For T, whose printed name another type
\* shares, the entry is looked at when T itself was resolved first.)
C24_Coherent ==
    \A typ \in {"T", "Emb", "Deep"} :
        (/\ CacheKey(typ, TRUE, FALSE) \in DOMAIN fieldInfoCache
         /\ typ = "T" => colsCold)
        => fieldInfoCache[CacheKey(typ, TRUE, FALSE)]
             = getFieldInfo(NoInfo, nameMapper, prog, typ, TRUE, FALSE).finfo


(***************************************************************************)
(* C25: the order of the steps of QueryDb and QueryRowDb.                  *)
(***************************************************************************)
\* The template of the call with its column marker expanded.
WithColumns ==
    Replace(qQuery, QueryReplace,
            <<"S", "E", "L", "E", "C", "T", " ">>
            \o CommaList(AscendingList(
                 DOMAIN getFieldInfo(NoInfo, nameMapper, prog, "T", TRUE, FALSE).finfo)))

\* Then the IN marker expanded, against the argument list of the call.
Final ==
    IF Count(WithColumns, InQueryReplace) = 0
    THEN Ret(WithColumns, qArgs, "nil", qArgs)
    ELSE InQueryResult(WithColumns, qArgs)

\* C25: a call of QueryDb or QueryRowDb with a handle and a template with at
\* most one IN marker, whose markers expand without error, sends db.Query
\* exactly one statement: the template with the column marker expanded
\* first and the IN marker expanded next, and the expanded arguments; also
\* when the template holds the IN marker and there are no arguments, and
\* then no absent cursor is iterated or closed.
C25_Pipeline ==
    (/\ qPc = "done" /\ qFn \in {"QueryDb", "QueryRowDb"}
     /\ qDb = "db" /\ Count(qQuery, InQueryReplace) <= 1
     /\ Final.err = "nil")
    => /\ qRet.sent = <<Statement(Final.query, Final.args)>>
       /\ qRet.err # "panic"


(***************************************************************************)
(* C26: the failures of the execution service and of the cursor.           *)
(***************************************************************************)
\* The function called returns one row.
OneRow == qFn \in {"QueryRowDb", "QueryBasicRowDb"}

\* The call met a failure of the service: db.Query failed, or the cursor it
\* returned failed to list its columns for a row, to scan a row the function
\* asked for, or to iterate (its Next stopped on an error, not at the end).
ServiceFailed ==
    \/ qSvc.queryFails /\ qRet.sent # <<>>
    \/ /\ qRet.opened
       /\ \/ qSvc.columnsFail /\ qSvc.nRows > 0
          \/ IF OneRow THEN qSvc.failRow = 1 ELSE qSvc.failRow > 0
          \/ /\ qSvc.iterErr
             /\ IF OneRow THEN qSvc.nRows = 0
                ELSE qSvc.failRow = 0 /\ ~(qSvc.columnsFail /\ qSvc.nRows > 0)

\* C26: a call of QueryDb, QueryRowDb, QueryBasicDb or QueryBasicRowDb that
\* met a failure of the execution service or of the cursor returns an error.
C26_NoneSwallowed ==
    (qPc = "done" /\ ServiceFailed) => qRet.err # "nil"


(***************************************************************************)
(* C27: calls without a database handle.                                   *)
(***************************************************************************)
\* C27: a database-backed function called with a nil handle returns an
\* error: it does not abort, it does not return nil, and it sends nothing
\* to the execution service.
C27_NilHandle ==
    /\ (qPc = "done" /\ qDb = "nil")
          => qRet.err \notin {"nil", "panic"} /\ qRet.sent = <<>>
    /\ (opName # "" /\ opDb = "nil")
          => opErr \notin {"nil", "panic"} /\ opSent = <<>>


(***************************************************************************)
(* C28, C29: the arguments of the caller of InQuery.                       *)
(***************************************************************************)
\* The value v is an argument of the returned list.
Returned_(v) ==
    \E j \in 1..Len(newArgs) : newArgs[j].kind = "scalar" /\ newArgs[j].v = v

\* The argument a of the call is in the returned list: itself, or, when it
\* is a sequence, each of its elements.
Kept(a) ==
    \/ \E j \in 1..Len(newArgs) : newArgs[j] = a
    \/ IsSeq(a) /\ \A e \in 1..Len(a.elems) : Returned_(a.elems[e])

\* C28: a successful call of InQuery on a template with the marker, none of
\* whose arguments is an empty sequence, returns every argument it was
\* given: each scalar argument, and each element of a sequence argument (or
\* the sequence itself); also when the marker is the only placeholder.
C28_NoArgumentLost ==
    (/\ Succeeded /\ OneMarker
     /\ \A i \in 1..Len(args) : IsSeq(args[i]) => Len(args[i].elems) >= 1)
    => \A i \in 1..Len(args) : Kept(args[i])


\* C29: after a call of InQuery on a template with the marker, successful
\* or not, the caller's argument list holds in every place the value it held
\* before the call.
C29_CallerArgsKept ==
    (pc = "done" /\ OneMarker) => callerArgs = args


(***************************************************************************)
(* C30: the statements of InsertDb and UpdateDb and their values.          *)
(***************************************************************************)
\* The columns an insert or update of T names, with the field each leads to.
WrittenInfo == getFieldInfo(NoInfo, nameMapper, prog, "T", FALSE, TRUE).finfo

\* "INSERT INTO t (c1, c2) VALUES (?, ?)"
InsertText(names) ==
    <<"I", "N", "S", "E", "R", "T", " ", "I", "N", "T", "O", " ", "t", " ", "(">>
    \o Join(names, <<",", " ">>)
    \o <<")", " ", "V", "A", "L", "U", "E", "S", " ", "(">>
    \o Join([j \in 1..Len(names) |-> <<"?">>], <<",", " ">>) \o <<")">>

\* "UPDATE t SET c1=?,c2=? WHERE pk=?"
UpdateText(names, pkCol) ==
    <<"U", "P", "D", "A", "T", "E", " ", "t", " ", "S", "E", "T", " ">>
    \o Join([j \in 1..Len(names) |-> names[j] \o <<"=", "?">>], <<",">>)
    \o <<" ", "W", "H", "E", "R", "E", " ">> \o pkCol \o <<"=", "?">>

\* C30: for a record type with exactly one primary-key field, the statement
\* InsertDb or UpdateDb sends has as many '?' as values; it names, in some
\* order, the columns of the fields that are neither primary key nor
\* ignore-marked, and the i-th value is that of the field of the i-th
\* column; an update carries the value of the primary key last, for the
\* closing WHERE pk=?.  A type with no other column than its key included.
C30_Aligned ==
    (/\ opCalls >= 1 /\ opName \in {"InsertDb", "UpdateDb"}
     /\ opDb = "db" /\ opType = "T" /\ opErr \in {"nil", ErrExec("updating"),
                                                   ErrExec("inserting into")}
     /\ Cardinality(PkMarked(prog)) = 1)
    => LET pk == CHOOSE p \in PkMarked(prog) : TRUE
       IN  /\ Len(opSent) = 1
           /\ NumQ(opSent[1].query) = Len(opSent[1].args)
           /\ \E names \in Orders(DOMAIN WrittenInfo) :
                 IF opName = "InsertDb"
                 THEN /\ opSent[1].query = InsertText(names)
                      /\ opSent[1].args = [j \in 1..Len(names) |-> WrittenInfo[names[j]]]
                 ELSE /\ \E pkCol \in {prog[pk + 1].name,
                                       ColumnName(nameMapper, prog[pk + 1])} :
                            opSent[1].query = UpdateText(names, pkCol)
                      /\ opSent[1].args =
                            [j \in 1..Len(names) |-> WrittenInfo[names[j]]] \o <<<<pk>>>>
           /\ \A k \in DOMAIN WrittenInfo :
                 ~prog[WrittenInfo[k][1] + 1].pk /\ ~prog[WrittenInfo[k][1] + 1].ign

====
